---- MODULE Spec2Model ----
(***************************************************************************)
(* conda-cage: recipe parsing, recipe diffing and the reconciliation of an *)
(* environment against a recipe.                                           *)
(*                                                                         *)
(* The repository holds two generations of the same pipeline:              *)
(*   - recipe.rs + action/install.rs: Recipe / Package / RecipeDiff and    *)
(*     the conda-subprocess driven install();                              *)
(*   - conda/recipe.rs + main.rs: CondaRecipe / Spec / DiffInfo and the    *)
(*     cache/index/linker driven install().                                *)
(* Both are modelled, each from its own source.                            *)
(***************************************************************************)
EXTENDS Integers, Sequences, FiniteSets, TLC

VARIABLES
    text,           \* input of the parsers: a recipe text, a sequence of lines
    recipe,         \* result of Recipe::try_from(text)        (recipe.rs)
    conda_recipe,   \* result of CondaRecipe::try_new(text)    (conda/recipe.rs)
    old_text,       \* the two recipe texts handed to the diff engines
    new_text,
    diff,           \* RecipeDiff returned by Recipe::diff      (recipe.rs)
    diff_info,      \* DiffInfo returned by CondaRecipe::diff   (conda/recipe.rs)
    \* action/install.rs, install(env_name, new_recipe = new_text, force_reinstall, ..)
    pc,             \* position of install()
    env_exists,     \* whether the conda environment env_name exists
    env,            \* its packages as `conda list` reports them: name -> tokens
    force_reinstall,
    collections,    \* CollectedPackages
    pkgs,           \* the VecDeque of the pypi install loop
    current_failed,
    result,         \* what install() returned
    requeues,       \* number of push_back calls of the pypi install loop
    invocations,    \* number of `pip install` subprocesses the loop has run
    increments,     \* number of InstallEvent::Increase the loop has sent
    last_outcome,   \* how the latest `pip install` of the loop ended
    touched,        \* names of the packages handed to a remove or install command
    failures,       \* number of subprocesses that have failed
    fault_cap,      \* number of subprocess failures the run may see
    sig_handlers,   \* whether the process has tokio's SIGTERM and SIGINT handlers installed
    signal_seen,    \* the signal delivered to the process while a child ran, or "none"
    \* main.rs, install(env_name, ..)
    main_pc,        \* position of install()
    conda_adds,     \* diff.conda.add after its sort_by
    pypi_adds,      \* diff.pypi.add after its sort_by
    \* main.rs install_conda_pkg(.., conda_index, conda_cache, spec, channels, ..),
    \* conda/index.rs CondaIndex, conda/cache.rs CondaCache
    spec_arg,       \* the Spec to install
    index_channels, \* `channels`: the channels the index was built for
    indexes,        \* CondaIndex.indexes: channel -> tarball names of its repodata
    remote,         \* what the channels serve as repodata.json: channel -> tarball names
    files,          \* the paths that exist under the packages directory
    resolved,       \* `pkg`: the Package the spec resolved to
    got,            \* what the latest call of a CondaCache method returned
    refetches,      \* number of update_indexes calls
    downloads,      \* number of tarballs install_conda_pkg had fetched
    unpacks,        \* number of unpack_tarball calls install_conda_pkg caused
    env_linked,     \* whether files of the package were linked into the environment
    main_result,    \* what install_conda_pkg returned
    \* main.rs install_conda_pkg, PathType::HardLink of a file with a prefix_placeholder
    contents,       \* the bytes of the file in the extracted directory
    prefix,         \* file.prefix_placeholder
    env_root_prefix,\* env_root_dir.display().to_string()
    file_mode,      \* file.file_mode
    to_file,        \* the file `to` of the environment: None, or Some(its bytes)
    file_data,      \* `data`: None before the rewrite, Some(the rewritten bytes) after
    \* main.rs install(): the steps of the plan
    calls,          \* the calls install() has made to install and uninstall packages, in order
    steps_done,     \* how many of the updates and deletes of the diff the loops have handled
    \* main.rs install_conda_pkg / uninstall_conda_pkg: one package and the environment
    pkg_paths,      \* paths_data.paths of the package: its path entries
    pkg_noarch,     \* whether prefix_record.noarch() is Some("python")
    python_version, \* the python_version handed to install_conda_pkg
    entry_points,   \* the cli names of conda_cache.get_entry_points(&pkg)
    env_fs,         \* the paths that exist under env_root_dir: path -> what is there
    meta_json,      \* conda-meta/{name}-{version}-{build}.json: None, or Some(its files)
    target_files,   \* `target_files` of install_conda_pkg
    link_i,         \* how many path entries (files, when uninstalling) the loop has handled
    \* conda/index.rs: the repodata files of the cache directory and the loaded index
    repo_pc,        \* "none" before CondaIndex::try_new, then "built" or "failed"
    repo_disk,      \* {cache}/pkgs/cache: (channel, subdir) -> the repodata the file holds
    repo_mem,       \* CondaIndex.indexes: (channel, subdir) -> the repodata loaded
    repo_log,       \* the (channel, subdir) pairs requested over HTTP, in order
    repo_updates,   \* number of update_indexes calls made
    \* conda/cache.rs, index.rs download: the cache files of one package
    tar_file,       \* {pkgs}/{name}-{version}-{build}.tar.bz2: None, or Some(its bytes)
    tree,           \* {pkgs}/{name}-{version}-{build}: None, or Some(the entries in it)
    record_json,    \* info/repodata_record.json of the tree: None, or Some(the JSON object)
    rsp_status,     \* the status of the last response download received
    \* main.rs install_conda_pkg
    cwd,            \* the working directory of the process
    \* action/install.rs lines 95-276 and action/mod.rs run_conda
    inst_pc,        \* position of install() after the printer was spawned
    handler,        \* the steps left of the handler install() is in
    child_state,    \* the conda child: none, running, exited, killed
    child_todo,     \* the lines the child has still to write
    pipe_out,       \* the lines in the pipe of its stdout
    pipe_err,       \* the lines in the pipe of its stderr
    events,         \* the InstallEvents in the channel
    printer_pc,     \* the printer task: running or done
    printer_saw_none, \* whether recv() has returned None to the printer
    pb_pos,         \* the position of the progress bar
    increase_sent,  \* number of InstallEvent::Increase sent for lines of the child
    matched_written,\* number of LINKING PACKAGE lines the child has written
    pip_failed      \* current_failed of the pypi loop

parseVars   == <<text, recipe, conda_recipe>>
diffVars    == <<old_text, new_text, diff, diff_info>>
installVars == <<pc, env_exists, env, force_reinstall, collections, pkgs, current_failed,
                 result, requeues, invocations, increments, last_outcome, touched, failures,
                 fault_cap, sig_handlers, signal_seen>>
signalVars  == <<sig_handlers, signal_seen>>
loopGhost   == <<invocations, increments, last_outcome>>
fetchVars   == <<spec_arg, index_channels, indexes, remote, files, resolved, got, refetches, downloads,
                 unpacks, env_linked, main_result>>
linkVars    == <<contents, prefix, env_root_prefix, file_mode, to_file, file_data>>
planVars    == <<calls, steps_done>>
envVars     == <<pkg_paths, pkg_noarch, python_version, entry_points, env_fs, meta_json,
                 target_files, link_i>>
repoVars    == <<repo_pc, repo_disk, repo_mem, repo_log, repo_updates>>
treeVars    == <<tar_file, tree, record_json, rsp_status>>
childVars   == <<inst_pc, handler, child_state, child_todo, pipe_out, pipe_err, events, printer_pc,
                 printer_saw_none, pb_pos, increase_sent, matched_written, pip_failed>>
auxVars     == <<repoVars, treeVars, cwd, childVars>>
mainVars    == <<main_pc, conda_adds, pypi_adds, fetchVars, linkVars, planVars, envVars, auxVars>>
vars        == <<parseVars, diffVars, installVars, mainVars>>

(***************************************************************************)
(* Bounds of the model.                                                    *)
(***************************************************************************)
MaxLines == 3       \* lines of a recipe text handed to the parsers
NumNames == 2       \* package names the diffed recipes range over
MaxFaults == 1      \* subprocess failures in one run of install()
MaxQueue == 2       \* packages in the queue when the pypi install loop is studied alone

(***************************************************************************)
(* Generic helpers.                                                        *)
(***************************************************************************)
Unset == [tag |-> "Unset"]

Range(s) == {s[i] : i \in 1..Len(s)}

\* all sequences without repetition enumerating the finite set S
Perms(S) == {p \in [1..Cardinality(S) -> S] : \A e \in S : \E i \in 1..Cardinality(S) : p[i] = e}

\* all sequences over S of length at most n
SeqsUpTo(S, n) == UNION {[1..k -> S] : k \in 0..n}

(***************************************************************************)
(* Strings.  A line is a sequence of lexemes: the lexeme " " is a run of   *)
(* whitespace, any other lexeme is a maximal run of non-whitespace         *)
(* characters (a word).                                                    *)
(***************************************************************************)
WS == " "

\* words that begin with the character '#'
HashWords == {"#", "#pip"}

\* str::trim
Trim(line) ==
    LET idx   == {i \in 1..Len(line) : line[i] # WS}
        first == CHOOSE i \in idx : \A j \in idx : i <= j
        last  == CHOOSE i \in idx : \A j \in idx : j <= i
    IN  IF idx = {} THEN <<>> ELSE SubSeq(line, first, last)

\* str::starts_with("#")
StartsWithHash(line) == Len(line) > 0 /\ line[1] \in HashWords

\* str::split_whitespace().collect()
IsWord(x) == x # WS
SplitWhitespace(line) == SelectSeq(line, IsWord)

\* String::cmp on package names: the alphabetical order of the names used.
AlphaOrder == <<"aiohttp", "numpy", "pip", "python", "setuptools", "six", "wheel", "yarl">>
NameRank(n) == CHOOSE i \in 1..Len(AlphaOrder) : AlphaOrder[i] = n
NameLess(a, b) == NameRank(a) < NameRank(b)

(***************************************************************************)
(* recipe.rs: Package, PackageKind, Recipe, TryFrom<&str> for Recipe.      *)
(***************************************************************************)
PyPi == [tag |-> "PyPi"]
Conda(build, channel) == [tag |-> "Conda", build |-> build, channel |-> channel]
Package(name, version, kind) == [name |-> name, version |-> version, kind |-> kind]

\* HashMap::insert
MapInsert(m, k, v) == [x \in (DOMAIN m) \cup {k} |-> IF x = k THEN v ELSE m[x]]
EmptyMap == [x \in {} |-> x]

Ok(v) == [tag |-> "Ok", value |-> v]
Err(e) == [tag |-> "Err", error |-> e]

\* the match on splitted[..] of one line: the package and the channel recorded
MatchSplittedNoDefaults(splitted) ==
    IF Len(splitted) = 3 THEN
        Ok([package  |-> Package(splitted[1], splitted[2], Conda(splitted[3], "defaults")),
            channels |-> {}])
    ELSE IF Len(splitted) = 4 /\ splitted[4] = "pypi" THEN
        Ok([package |-> Package(splitted[1], splitted[2], PyPi), channels |-> {}])
    ELSE IF Len(splitted) = 4 THEN
        Ok([package  |-> Package(splitted[1], splitted[2], Conda(splitted[3], splitted[4])),
            channels |-> {splitted[4]}])
    ELSE Err(<<"invalid package spec", splitted>>)

MatchSplittedFiveTokens(splitted) ==
    IF Len(splitted) = 3 \/ Len(splitted) = 5 THEN
        Ok([package  |-> Package(splitted[1], splitted[2], Conda(splitted[3], "defaults")),
            channels |-> {"defaults"}])
    ELSE IF Len(splitted) = 4 /\ splitted[4] = "pypi" THEN
        Ok([package |-> Package(splitted[1], splitted[2], PyPi), channels |-> {}])
    ELSE IF Len(splitted) = 4 THEN
        Ok([package  |-> Package(splitted[1], splitted[2], Conda(splitted[3], splitted[4])),
            channels |-> {splitted[4]}])
    ELSE Err(<<"invalid package spec", splitted>>)

MatchSplitted(splitted) ==
    IF Len(splitted) = 3 THEN
        Ok([package  |-> Package(splitted[1], splitted[2], Conda(splitted[3], "defaults")),
            channels |-> {"defaults"}])
    ELSE IF Len(splitted) = 4 /\ splitted[4] = "pypi" THEN
        Ok([package |-> Package(splitted[1], splitted[2], PyPi), channels |-> {}])
    ELSE IF Len(splitted) = 4 THEN
        Ok([package  |-> Package(splitted[1], splitted[2], Conda(splitted[3], splitted[4])),
            channels |-> {splitted[4]}])
    ELSE Err(<<"invalid package spec", splitted>>)

\* the for loop of try_from over value.lines(), from line i on
RECURSIVE RecipeLines(_, _, _, _)
RecipeLines(value, i, packages, channels) ==
    IF i > Len(value) THEN Ok([channels |-> channels, packages |-> packages])
    ELSE LET line == Trim(value[i]) IN
         IF StartsWithHash(line) \/ line = <<>>
         THEN RecipeLines(value, i + 1, packages, channels)
         ELSE LET m == MatchSplitted(SplitWhitespace(line)) IN
              IF m.tag = "Err" THEN m
              ELSE RecipeLines(value, i + 1,
                               MapInsert(packages, m.value.package.name, m.value.package),
                               channels \cup m.value.channels)

RecipeTryFrom(value) == RecipeLines(value, 1, EmptyMap, {})

(***************************************************************************)
(* conda/recipe.rs: Spec, CondaRecipe::try_new.  Option<String> is a       *)
(* sequence of length at most one.                                         *)
(***************************************************************************)
None == <<>>
Some(x) == <<x>>

Spec(name, version, build, channel) ==
    [name |-> name, version |-> version, build |-> build, channel |-> channel]

InvalidRecipe == "InvalidRecipe"

\* the match on splitted.len() of one line
SpecOfSplitted(splitted) ==
    IF Len(splitted) = 4 THEN
        Ok(Spec(splitted[1], splitted[2], splitted[3], Some(splitted[4])))
    ELSE IF Len(splitted) = 3 THEN
        Ok(Spec(splitted[1], splitted[2], splitted[3], None))
    ELSE Err(InvalidRecipe)

RECURSIVE CondaRecipeLines(_, _, _)
CondaRecipeLines(content, i, specs) ==
    IF i > Len(content) THEN Ok([specs |-> specs])
    ELSE LET line == Trim(content[i]) IN
         IF StartsWithHash(line) \/ line = <<>>
         THEN CondaRecipeLines(content, i + 1, specs)
         ELSE LET s == SpecOfSplitted(SplitWhitespace(line)) IN
              IF s.tag = "Err" THEN s
              ELSE CondaRecipeLines(content, i + 1, MapInsert(specs, s.value.name, s.value))

CondaRecipeTryNew(content) == CondaRecipeLines(content, 1, EmptyMap)

(***************************************************************************)
(* The parsers applied to a recipe text.                                   *)
(***************************************************************************)
\* the lines the recipe texts are made of
Lines == {
    <<>>,
    <<WS>>,
    <<"#", WS, "Name", WS, "Version">>,
    <<WS, "#pip", WS, "1", WS, "b0">>,
    <<"pip", WS, "1", WS, "b0">>,
    <<WS, "pip", WS, "2", WS, "b1", WS>>,
    <<"numpy", WS, "1", WS, "b0", WS, "conda-forge">>,
    <<"pip", WS, "1", WS, "b0", WS, "defaults">>,
    <<"numpy", WS, "1", WS, "pypi_0", WS, "pypi">>,
    <<"numpy", WS, "1">>,
    <<"pip", WS, "1", WS, "b0", WS, "#", WS, "pinned">>
}

Texts == SeqsUpTo(Lines, MaxLines)

\* install() not running
InstallIdle ==
    /\ pc = "idle"
    /\ env_exists = FALSE
    /\ env = EmptyMap
    /\ force_reinstall = FALSE
    /\ collections = Unset
    /\ pkgs = <<>>
    /\ current_failed = 0
    /\ result = Unset
    /\ requeues = 0
    /\ invocations = 0
    /\ increments = 0
    /\ last_outcome = "none"
    /\ touched = {}
    /\ failures = 0
    /\ fault_cap = 0
    /\ sig_handlers = FALSE
    /\ signal_seen = "none"

\* install() of main.rs not running
\* no method of CondaCache called yet
NoCall == [method |-> "none"]

\* no step of the plan of main.rs taken
PlanIdle ==
    /\ calls = <<>>
    /\ steps_done = 0

\* no package being linked into or unlinked from the environment
EnvIdle ==
    /\ pkg_paths = <<>>
    /\ pkg_noarch = FALSE
    /\ python_version = <<>>
    /\ entry_points = <<>>
    /\ env_fs = EmptyMap
    /\ meta_json = <<>>
    /\ target_files = <<>>
    /\ link_i = 0

\* the working directory the process is started in
StartDir == <<"{cwd}">>

\* no conda child and no printer task
ChildIdle ==
    /\ inst_pc = "none"
    /\ handler = <<>>
    /\ child_state = "none"
    /\ child_todo = <<>>
    /\ pipe_out = <<>>
    /\ pipe_err = <<>>
    /\ events = <<>>
    /\ printer_pc = "none"
    /\ printer_saw_none = FALSE
    /\ pb_pos = 0
    /\ increase_sent = 0
    /\ matched_written = 0
    /\ pip_failed = 0

\* no channel index constructed
RepoIdle ==
    /\ repo_pc = "none"
    /\ repo_disk = EmptyMap
    /\ repo_mem = EmptyMap
    /\ repo_log = <<>>
    /\ repo_updates = 0

\* no cache file of a package looked at
TreeIdle ==
    /\ tar_file = <<>>
    /\ tree = <<>>
    /\ record_json = <<>>
    /\ rsp_status = "none"

\* nothing of the index files, the extracted trees, the children or the
\* printer in use
AuxIdle ==
    /\ RepoIdle
    /\ TreeIdle
    /\ cwd = StartDir
    /\ ChildIdle

\* no file being written into the environment
LinkIdle ==
    /\ contents = <<>>
    /\ prefix = <<>>
    /\ env_root_prefix = <<>>
    /\ file_mode = <<>>
    /\ to_file = <<>>
    /\ file_data = <<>>

\* no package being installed by install_conda_pkg, no cache method called
FetchIdle ==
    /\ LinkIdle
    /\ PlanIdle
    /\ EnvIdle
    /\ AuxIdle
    /\ spec_arg = Unset
    /\ index_channels = {}
    /\ indexes = EmptyMap
    /\ remote = EmptyMap
    /\ files = {}
    /\ resolved = Unset
    /\ got = NoCall
    /\ refetches = 0
    /\ downloads = 0
    /\ unpacks = 0
    /\ env_linked = FALSE
    /\ main_result = Unset

MainIdle ==
    /\ main_pc = "idle"
    /\ conda_adds = <<>>
    /\ pypi_adds = <<>>
    /\ FetchIdle

InitParse ==
    /\ InstallIdle
    /\ MainIdle
    /\ text \in Texts
    /\ recipe = Unset
    /\ conda_recipe = Unset
    /\ old_text = <<>>
    /\ new_text = <<>>
    /\ diff = Unset
    /\ diff_info = Unset

TryFrom ==
    /\ recipe = Unset
    /\ recipe' = RecipeTryFrom(text)
    /\ UNCHANGED <<text, conda_recipe, diffVars, installVars, mainVars>>

TryNew ==
    /\ conda_recipe = Unset
    /\ conda_recipe' = CondaRecipeTryNew(text)
    /\ UNCHANGED <<text, recipe, diffVars, installVars, mainVars>>

NextParse == TryFrom \/ TryNew

SpecParse == InitParse /\ [][NextParse]_vars

(***************************************************************************)
(* Claims about the parsers.                                               *)
(***************************************************************************)
\* a line that is non-empty after trimming and does not begin with '#'
IsSpecLine(l) == Trim(l) # <<>> /\ ~StartsWithHash(Trim(l))
TokenCount(l) == Len(SplitWhitespace(Trim(l)))
HasBadLine(t) == \E i \in 1..Len(t) : IsSpecLine(t[i]) /\ TokenCount(t[i]) \notin {3, 4}

\* C8: parsing fails with an invalid-recipe error iff some line that is
\* non-empty after trimming and does not begin with '#' has a number of
\* tokens other than 3 or 4; on failure no recipe is returned; a text whose
\* every such line has 3 or 4 tokens parses (both parsers).
C8_ParseFailsIffBadTokenCount ==
    /\ recipe # Unset =>
          /\ (recipe.tag = "Err") <=> HasBadLine(text)
          /\ (recipe.tag = "Ok") <=> ~HasBadLine(text)
          /\ recipe.tag = "Err" =>
                /\ "value" \notin DOMAIN recipe
                /\ recipe.error[1] = "invalid package spec"
          /\ recipe.tag = "Ok" => DOMAIN recipe.value = {"channels", "packages"}
    /\ conda_recipe # Unset =>
          /\ (conda_recipe.tag = "Err") <=> HasBadLine(text)
          /\ (conda_recipe.tag = "Ok") <=> ~HasBadLine(text)
          /\ conda_recipe.tag = "Err" =>
                /\ "value" \notin DOMAIN conda_recipe
                /\ conda_recipe.error = InvalidRecipe
          /\ conda_recipe.tag = "Ok" => DOMAIN conda_recipe.value = {"specs"}

\* a text of three lines, a comment and a good line among them, that both
\* parsers reject because of one line with a wrong token count
C8_Witness ==
    /\ recipe # Unset /\ conda_recipe # Unset
    /\ recipe.tag = "Err" /\ conda_recipe.tag = "Err"
    /\ Len(text) = 3
    /\ \E i \in 1..3 : IsSpecLine(text[i]) /\ TokenCount(text[i]) = 4
    /\ \E i \in 1..3 : ~IsSpecLine(text[i])
    /\ \E i \in 1..3 : IsSpecLine(text[i]) /\ TokenCount(text[i]) = 5

\* the explicit channels of the four-token native lines of a text
ExplicitChannels(t) ==
    {SplitWhitespace(Trim(t[i]))[4] :
        i \in {j \in 1..Len(t) : /\ IsSpecLine(t[j])
                                 /\ TokenCount(t[j]) = 4
                                 /\ SplitWhitespace(Trim(t[j]))[4] # "pypi"}}
HasThreeTokenLine(t) == \E i \in 1..Len(t) : IsSpecLine(t[i]) /\ TokenCount(t[i]) = 3

\* C9 as stated: the channel set of a parsed recipe is exactly the set of
\* explicit channels of its four-token native lines; the default-channel
\* sentinel of three-token lines is not a member, nor is pypi.
C9_Original ==
    (recipe # Unset /\ recipe.tag = "Ok") =>
        /\ recipe.value.channels = ExplicitChannels(text)
        /\ "pypi" \notin recipe.value.channels
        /\ HasThreeTokenLine(text) /\ "defaults" \notin ExplicitChannels(text)
              => "defaults" \notin recipe.value.channels

\* C9 amended: the channel set of a parsed recipe is exactly the set of
\* channels of the native lines encountered: every explicit channel of a
\* four-token native line (also of a line a later duplicate name replaces),
\* and `defaults` whenever a three-token line was encountered; pypi is
\* never a member.
C9_ChannelsOfNativeLines ==
    (recipe # Unset /\ recipe.tag = "Ok") =>
        /\ recipe.value.channels =
              ExplicitChannels(text) \cup
              (IF HasThreeTokenLine(text) THEN {"defaults"} ELSE {})
        /\ "pypi" \notin recipe.value.channels

\* a parsed recipe with a three-token line and a conda-forge line whose
\* package a later pypi line of the same name replaced
C9_Witness ==
    /\ recipe # Unset /\ recipe.tag = "Ok"
    /\ recipe.value.channels = {"defaults", "conda-forge"}
    /\ \A n \in DOMAIN recipe.value.packages :
          recipe.value.packages[n].kind.tag = "Conda"
             => recipe.value.packages[n].kind.channel = "defaults"
    /\ \E n \in DOMAIN recipe.value.packages : recipe.value.packages[n].kind = PyPi

(***************************************************************************)
(* recipe.rs: RecipeDiff, Update, RecipeDiff::sort, Recipe::diff.          *)
(***************************************************************************)
Update(from, to) == [from |-> from, to |-> to]

\* slice::sort_by, a stable sort, of the items of s by the ranks in key
RECURSIVE StableSort(_)
StableSort(pairs) ==
    IF pairs = <<>> THEN <<>>
    ELSE LET sorted == StableSort(SubSeq(pairs, 1, Len(pairs) - 1))
             p      == pairs[Len(pairs)]
             k      == Cardinality({i \in 1..Len(sorted) : sorted[i].key <= p.key})
         IN  SubSeq(sorted, 1, k) \o <<p>> \o SubSeq(sorted, k + 1, Len(sorted))

Items(pairs) == [i \in 1..Len(pairs) |-> pairs[i].item]

\* sort_by(|a, b| a.name.cmp(&b.name))
SortByName(ps) ==
    Items(StableSort([i \in 1..Len(ps) |-> [key |-> NameRank(ps[i].name), item |-> ps[i]]]))

\* sort_by(|a, b| a.from.name.cmp(&b.from.name))
SortByFromName(ups) ==
    Items(StableSort([i \in 1..Len(ups) |-> [key |-> NameRank(ups[i].from.name), item |-> ups[i]]]))

\* RecipeDiff::sort
RecipeDiffSort(d) ==
    [adds    |-> SortByName(d.adds),
     updates |-> SortByFromName(d.updates),
     deletes |-> SortByName(d.deletes)]

\* the sequence of the values m[order[i]]
Values(m, order) == [i \in 1..Len(order) |-> m[order[i]]]

\* Recipe::diff pushing an update for every name found in both recipes
RecipeDiffOfUpdateAlways(old, new, old_order, rest_order) ==
    LET IsUpdate(n) == n \in DOMAIN new
        IsDelete(n) == n \notin DOMAIN new
        ups  == SelectSeq(old_order, IsUpdate)
        dels == SelectSeq(old_order, IsDelete)
    IN  RecipeDiffSort(
            [adds    |-> Values(new, rest_order),
             updates |-> [i \in 1..Len(ups) |-> Update(old[ups[i]], new[ups[i]])],
             deletes |-> Values(old, dels)])

\* Recipe::diff emitting a delete and an add, not an update, for a name whose
\* kind changes
RecipeDiffOfSplitCrossKind(old, new, old_order, rest_order) ==
    LET Crosses(n)  == n \in DOMAIN new /\ new[n].kind.tag # old[n].kind.tag
        IsUpdate(n) == n \in DOMAIN new /\ new[n] # old[n] /\ ~Crosses(n)
        IsDelete(n) == n \notin DOMAIN new \/ Crosses(n)
        ups  == SelectSeq(old_order, IsUpdate)
        dels == SelectSeq(old_order, IsDelete)
    IN  RecipeDiffSort(
            [adds    |-> Values(new, rest_order \o SelectSeq(old_order, Crosses)),
             updates |-> [i \in 1..Len(ups) |-> Update(old[ups[i]], new[ups[i]])],
             deletes |-> Values(old, dels)])

\* Recipe::diff.  old and new are the packages maps of self and new_recipe;
\* old_order is the order in which self.packages is iterated, rest_order
\* the order in which what is left of new_recipe.packages is iterated.
RecipeDiffOf(old, new, old_order, rest_order) ==
    LET IsUpdate(n) == n \in DOMAIN new /\ new[n] # old[n]
        IsDelete(n) == n \notin DOMAIN new
        ups  == SelectSeq(old_order, IsUpdate)
        dels == SelectSeq(old_order, IsDelete)
    IN  RecipeDiffSort(
            [adds    |-> Values(new, rest_order),
             updates |-> [i \in 1..Len(ups) |-> Update(old[ups[i]], new[ups[i]])],
             deletes |-> Values(old, dels)])

(***************************************************************************)
(* conda/recipe.rs: PartialEq for Spec, Diff, DiffInfo, CondaRecipe::diff. *)
(***************************************************************************)
\* impl PartialEq for Spec
SpecEq(a, b) == a.name = b.name /\ a.version = b.version /\ a.build = b.build

IsPypiSpec(s) == s.channel = Some("pypi")

\* CondaRecipe::diff with from and to of an update exchanged
CondaRecipeDiffSwapped(old, new, old_order, new_order) ==
    LET Changed(n) == n \in DOMAIN new /\ ~SpecEq(new[n], old[n])
        Gone(n)    == n \notin DOMAIN new
        Fresh(n)   == new[n].name \notin DOMAIN old
        OldPypi(n)  == IsPypiSpec(old[n])
        OldConda(n) == ~IsPypiSpec(old[n])
        NewPypi(n)  == IsPypiSpec(new[n])
        NewConda(n) == ~IsPypiSpec(new[n])
        Ups(order)  == LET c == SelectSeq(order, Changed)
                       IN  [i \in 1..Len(c) |-> Update(new[c[i]], old[c[i]])]
    IN  [conda |-> [add    |-> Values(new, SelectSeq(SelectSeq(new_order, NewConda), Fresh)),
                    update |-> Ups(SelectSeq(old_order, OldConda)),
                    delete |-> Values(old, SelectSeq(SelectSeq(old_order, OldConda), Gone))],
         pypi  |-> [add    |-> Values(new, SelectSeq(SelectSeq(new_order, NewPypi), Fresh)),
                    update |-> Ups(SelectSeq(old_order, OldPypi)),
                    delete |-> Values(old, SelectSeq(SelectSeq(old_order, OldPypi), Gone))]]

\* CondaRecipe::diff without the contains_key test on the adds
CondaRecipeDiffAddsUnchecked(old, new, old_order, new_order) ==
    LET Changed(n) == n \in DOMAIN new /\ ~SpecEq(new[n], old[n])
        Gone(n)    == n \notin DOMAIN new
        OldPypi(n)  == IsPypiSpec(old[n])
        OldConda(n) == ~IsPypiSpec(old[n])
        NewPypi(n)  == IsPypiSpec(new[n])
        NewConda(n) == ~IsPypiSpec(new[n])
        Ups(order)  == LET c == SelectSeq(order, Changed)
                       IN  [i \in 1..Len(c) |-> Update(old[c[i]], new[c[i]])]
    IN  [conda |-> [add    |-> Values(new, SelectSeq(new_order, NewConda)),
                    update |-> Ups(SelectSeq(old_order, OldConda)),
                    delete |-> Values(old, SelectSeq(SelectSeq(old_order, OldConda), Gone))],
         pypi  |-> [add    |-> Values(new, SelectSeq(new_order, NewPypi)),
                    update |-> Ups(SelectSeq(old_order, OldPypi)),
                    delete |-> Values(old, SelectSeq(SelectSeq(old_order, OldPypi), Gone))]]

\* CondaRecipe::diff.  old and new are the specs maps of self and
\* new_recipe; old_order and new_order the orders in which they are iterated.
CondaRecipeDiff(old, new, old_order, new_order) ==
    LET Changed(n) == n \in DOMAIN new /\ ~SpecEq(new[n], old[n])
        Gone(n)    == n \notin DOMAIN new
        Fresh(n)   == new[n].name \notin DOMAIN old
        OldPypi(n)  == IsPypiSpec(old[n])
        OldConda(n) == ~IsPypiSpec(old[n])
        NewPypi(n)  == IsPypiSpec(new[n])
        NewConda(n) == ~IsPypiSpec(new[n])
        Ups(order)  == LET c == SelectSeq(order, Changed)
                       IN  [i \in 1..Len(c) |-> Update(old[c[i]], new[c[i]])]
    IN  [conda |-> [add    |-> Values(new, SelectSeq(SelectSeq(new_order, NewConda), Fresh)),
                    update |-> Ups(SelectSeq(old_order, OldConda)),
                    delete |-> Values(old, SelectSeq(SelectSeq(old_order, OldConda), Gone))],
         pypi  |-> [add    |-> Values(new, SelectSeq(SelectSeq(new_order, NewPypi), Fresh)),
                    update |-> Ups(SelectSeq(old_order, OldPypi)),
                    delete |-> Values(old, SelectSeq(SelectSeq(old_order, OldPypi), Gone))]]

(***************************************************************************)
(* The diff engines applied to two recipes.                                *)
(***************************************************************************)
\* the names of the recipes that are diffed
NameUniverse == <<"pip", "numpy", "aiohttp", "six">>
Names == {NameUniverse[i] : i \in 1..NumNames}

\* what a recipe line holds after the name: version, build and, on
\* four-token lines, the channel
Variants == {
    <<"1", "b0">>,
    <<"2", "b0">>,
    <<"1", "b0", "conda-forge">>,
    <<"1", "b0", "pypi">>,
    <<"2", "b1", "pypi">>
}

\* the line of a package, tokens separated by whitespace
LineOf(name, v) ==
    IF Len(v) = 3 THEN <<name, WS, v[1], WS, v[2], WS, v[3]>>
                  ELSE <<name, WS, v[1], WS, v[2]>>

\* the names of S in alphabetical order
SortedNames(S) == CHOOSE p \in Perms(S) : \A i, j \in 1..Len(p) : i < j => NameLess(p[i], p[j])

\* a recipe text as `conda list` prints it: a header comment, then one line
\* per package in alphabetical order of name
Listing(f) ==
    <<<<"#", WS, "Name", WS, "Version">>>> \o
    [i \in 1..Cardinality(DOMAIN f) |-> LineOf(SortedNames(DOMAIN f)[i], f[SortedNames(DOMAIN f)[i]])]

Listings == {Listing(f) : f \in UNION {[S -> Variants] : S \in SUBSET Names}}

InitDiff ==
    /\ InstallIdle
    /\ MainIdle
    /\ old_text \in Listings
    /\ new_text \in Listings
    /\ diff = Unset
    /\ diff_info = Unset
    /\ text = <<>>
    /\ recipe = Unset
    /\ conda_recipe = Unset

OldPackages == RecipeTryFrom(old_text).value.packages
NewPackages == RecipeTryFrom(new_text).value.packages
OldSpecs == CondaRecipeTryNew(old_text).value.specs
NewSpecs == CondaRecipeTryNew(new_text).value.specs

\* old_recipe.diff(new_recipe) of recipe.rs, for every iteration order of
\* the two hash maps
Diff ==
    /\ diff = Unset
    /\ \E old \in {OldPackages}, new \in {NewPackages} :
          \E old_order \in Perms(DOMAIN old), rest_order \in Perms(DOMAIN new \ DOMAIN old) :
             diff' = RecipeDiffOf(old, new, old_order, rest_order)
    /\ UNCHANGED <<old_text, new_text, diff_info, parseVars, installVars, mainVars>>

\* old.diff(&new) of conda/recipe.rs, for every iteration order of the two
\* hash maps
CondaDiff ==
    /\ diff_info = Unset
    /\ \E old \in {OldSpecs}, new \in {NewSpecs} :
          \E old_order \in Perms(DOMAIN old), new_order \in Perms(DOMAIN new) :
             diff_info' = CondaRecipeDiff(old, new, old_order, new_order)
    /\ UNCHANGED <<old_text, new_text, diff, parseVars, installVars, mainVars>>

NextDiff == Diff \/ CondaDiff

SpecDiff == InitDiff /\ [][NextDiff]_vars

(***************************************************************************)
(* Claims about the diff engines.                                          *)
(***************************************************************************)
PkgNames(ps)    == [i \in 1..Len(ps) |-> ps[i].name]
FromNames(ups)  == [i \in 1..Len(ups) |-> ups[i].from.name]
NoDup(s)        == \A i, j \in 1..Len(s) : i # j => s[i] # s[j]
Ascending(ns)   == \A i, j \in 1..Len(ns) : i < j => NameLess(ns[i], ns[j])
BothDone        == diff # Unset /\ diff_info # Unset

\* a plan applied to the map a: the deletes removed, each update's from
\* replaced by its to, the adds inserted
ApplyPlan(a, adds, updates, deletes) ==
    LET del   == Range(PkgNames(deletes))
        addn  == Range(PkgNames(adds))
        To(n) == {updates[i].to : i \in {j \in 1..Len(updates) : updates[j].from.name = n}}
    IN  [n \in ((DOMAIN a) \ del) \cup addn |->
            IF n \in addn THEN CHOOSE p \in Range(adds) : p.name = n
            ELSE IF To(n) # {} THEN CHOOSE p \in To(n) : TRUE
            ELSE a[n]]

ApplyDiff(a, d) == ApplyPlan(a, d.adds, d.updates, d.deletes)
ApplyDiffInfo(a, d) ==
    ApplyPlan(a, d.conda.add \o d.pypi.add, d.conda.update \o d.pypi.update,
              d.conda.delete \o d.pypi.delete)

\* name -> (version, build) of a specs map
Identity(m) == [n \in DOMAIN m |-> <<m[n].version, m[n].build>>]

\* C2 as stated: applying diff(a, b) to a yields exactly b at the level of
\* name -> (version, build, channel), for both diff engines.
C2_Original ==
    /\ diff # Unset => ApplyDiff(OldPackages, diff) = NewPackages
    /\ diff_info # Unset => ApplyDiffInfo(OldSpecs, diff_info) = NewSpecs

\* C2 amended: applying diff(a, b) to a yields exactly b at the level of
\* name -> (version, build); Recipe::diff reproduces the channel as well,
\* CondaRecipe::diff leaves the channel of a package whose version and
\* build are unchanged as it is in a.
C2_DiffSymmetry ==
    /\ diff # Unset => ApplyDiff(OldPackages, diff) = NewPackages
    /\ diff_info # Unset =>
          Identity(ApplyDiffInfo(OldSpecs, diff_info)) = Identity(NewSpecs)

\* both plans computed for two recipes with a package that changes its
\* channel only, next to a package that is added
C2_Witness ==
    /\ BothDone
    /\ \E n \in DOMAIN OldSpecs \cap DOMAIN NewSpecs :
          /\ SpecEq(OldSpecs[n], NewSpecs[n])
          /\ OldSpecs[n].channel # NewSpecs[n].channel
    /\ Len(diff_info.conda.add) + Len(diff_info.pypi.add) = 1
    /\ Len(diff.adds) = 1

\* the names of one sub-diff, list after list
SubDiffNames(adds, updates, deletes) ==
    PkgNames(adds) \o FromNames(updates) \o PkgNames(deletes)

\* C3: every package name appears in at most one of the adds, updates and
\* deletes lists of a (sub-)diff, and at most once in that list.
C3_DiffDisjoint ==
    /\ diff # Unset => NoDup(SubDiffNames(diff.adds, diff.updates, diff.deletes))
    /\ diff_info # Unset =>
          /\ NoDup(SubDiffNames(diff_info.conda.add, diff_info.conda.update,
                                diff_info.conda.delete))
          /\ NoDup(SubDiffNames(diff_info.pypi.add, diff_info.pypi.update,
                                diff_info.pypi.delete))

\* a native sub-diff with an add and an update at once
C3_Witness ==
    /\ BothDone
    /\ Len(diff_info.conda.add) = 1
    /\ Len(diff_info.conda.update) = 1
    /\ Len(diff.adds) = 1 /\ Len(diff.updates) = 1

\* the names in both recipes whose provenance crosses the boundary
CrossNames == {n \in DOMAIN OldSpecs \cap DOMAIN NewSpecs :
                  IsPypiSpec(OldSpecs[n]) # IsPypiSpec(NewSpecs[n])}
SubDiffOf(d, s) == IF IsPypiSpec(s) THEN d.pypi ELSE d.conda
AllUpdates(d) == d.conda.update \o d.pypi.update
AllAdds(d)    == d.conda.add \o d.pypi.add
AllDeletes(d) == d.conda.delete \o d.pypi.delete

\* C4 as stated: a name in both recipes whose provenance crosses the
\* native/language-layer boundary gets a delete of the old spec on the old
\* side, an add of the new spec on the new side, and no update record.
C4_Original ==
    /\ diff # Unset =>
          \A n \in CrossNames :
             /\ OldPackages[n] \in Range(diff.deletes)
             /\ NewPackages[n] \in Range(diff.adds)
             /\ n \notin Range(FromNames(diff.updates))
    /\ diff_info # Unset =>
          \A n \in CrossNames :
             /\ OldSpecs[n] \in Range(SubDiffOf(diff_info, OldSpecs[n]).delete)
             /\ NewSpecs[n] \in Range(SubDiffOf(diff_info, NewSpecs[n]).add)
             /\ n \notin Range(FromNames(AllUpdates(diff_info)))

\* C4 amended: a name in both recipes whose provenance crosses the boundary
\* gets no delete and no add; Recipe::diff emits exactly one update record
\* {from: old, to: new} for it, CondaRecipe::diff emits exactly one update
\* record {from: old, to: new}, in the sub-diff of the old spec's
\* provenance, when version or build differ and no record when they are
\* equal.
C4_CrossKindIsUpdate ==
    /\ diff # Unset =>
          \A n \in CrossNames :
             /\ Cardinality({i \in 1..Len(diff.updates) : diff.updates[i].from.name = n}) = 1
             /\ Update(OldPackages[n], NewPackages[n]) \in Range(diff.updates)
             /\ n \notin Range(PkgNames(diff.adds)) \cup Range(PkgNames(diff.deletes))
    /\ diff_info # Unset =>
          \A n \in CrossNames :
             /\ n \notin Range(PkgNames(AllAdds(diff_info)))
             /\ n \notin Range(PkgNames(AllDeletes(diff_info)))
             /\ n \notin Range(FromNames(SubDiffOf(diff_info, NewSpecs[n]).update))
             /\ IF SpecEq(OldSpecs[n], NewSpecs[n])
                THEN n \notin Range(FromNames(AllUpdates(diff_info)))
                ELSE /\ Update(OldSpecs[n], NewSpecs[n])
                            \in Range(SubDiffOf(diff_info, OldSpecs[n]).update)
                     /\ Cardinality({i \in 1..Len(AllUpdates(diff_info)) :
                                        AllUpdates(diff_info)[i].from.name = n}) = 1

\* both plans computed for recipes with a native package that becomes a
\* language-layer package of another version
C4_Witness ==
    /\ BothDone
    /\ \E n \in CrossNames :
          /\ ~IsPypiSpec(OldSpecs[n])
          /\ OldSpecs[n].version # NewSpecs[n].version

\* C5: diff(old, new) classifies every name exactly once: deletes are the
\* packages whose name is only in old, adds those whose name is only in
\* new, updates the pairs {from: old, to: new} of the names in both whose
\* packages differ (by the engine's equality), with from.name = to.name;
\* a name whose packages are equal appears in no list.
C5_DiffClassifies ==
    /\ diff # Unset =>
          LET old == OldPackages
              new == NewPackages
              changed == {n \in DOMAIN old \cap DOMAIN new : old[n] # new[n]}
          IN  /\ Range(diff.deletes) = {old[n] : n \in DOMAIN old \ DOMAIN new}
              /\ Range(diff.adds) = {new[n] : n \in DOMAIN new \ DOMAIN old}
              /\ Range(diff.updates) = {Update(old[n], new[n]) : n \in changed}
              /\ Len(diff.deletes) = Cardinality(DOMAIN old \ DOMAIN new)
              /\ Len(diff.adds) = Cardinality(DOMAIN new \ DOMAIN old)
              /\ Len(diff.updates) = Cardinality(changed)
              /\ \A i \in 1..Len(diff.updates) :
                    diff.updates[i].from.name = diff.updates[i].to.name
    /\ diff_info # Unset =>
          LET old == OldSpecs
              new == NewSpecs
              changed == {n \in DOMAIN old \cap DOMAIN new : ~SpecEq(old[n], new[n])}
              ups == AllUpdates(diff_info)
          IN  /\ Range(AllDeletes(diff_info)) = {old[n] : n \in DOMAIN old \ DOMAIN new}
              /\ Range(AllAdds(diff_info)) = {new[n] : n \in DOMAIN new \ DOMAIN old}
              /\ Range(ups) = {Update(old[n], new[n]) : n \in changed}
              /\ Len(AllDeletes(diff_info)) = Cardinality(DOMAIN old \ DOMAIN new)
              /\ Len(AllAdds(diff_info)) = Cardinality(DOMAIN new \ DOMAIN old)
              /\ Len(ups) = Cardinality(changed)
              /\ \A i \in 1..Len(ups) : ups[i].from.name = ups[i].to.name

\* both plans computed for recipes with one update and one delete
C5_Witness ==
    /\ BothDone
    /\ Len(diff.updates) = 1 /\ Len(diff.deletes) = 1 /\ Len(diff.adds) = 0
    /\ Len(AllUpdates(diff_info)) = 1 /\ Len(AllDeletes(diff_info)) = 1

\* C6 as stated, of Recipe::diff and for the packages that are native in
\* both recipes: such a package produces no diff entry iff its version and
\* build are the same in both, whatever its channel in either recipe.
C6_Original ==
    diff # Unset =>
       \A n \in (DOMAIN OldSpecs \cap DOMAIN NewSpecs) \ CrossNames :
          ~IsPypiSpec(OldSpecs[n]) =>
             ((OldSpecs[n].version = NewSpecs[n].version /\ OldSpecs[n].build = NewSpecs[n].build)
                <=> n \notin Range(SubDiffNames(diff.adds, diff.updates, diff.deletes)))

\* C7 as stated: the adds and deletes of the returned plan are in ascending
\* alphabetical order of name and its updates in ascending order of
\* from.name, whatever the iteration order of the recipe maps (both engines).
C7_Original ==
    /\ diff # Unset =>
          /\ Ascending(PkgNames(diff.adds))
          /\ Ascending(FromNames(diff.updates))
          /\ Ascending(PkgNames(diff.deletes))
    /\ diff_info # Unset =>
          \A d \in {diff_info.conda, diff_info.pypi} :
             /\ Ascending(PkgNames(d.add))
             /\ Ascending(FromNames(d.update))
             /\ Ascending(PkgNames(d.delete))

(***************************************************************************)
(* action/install.rs: collect_packages.                                    *)
(***************************************************************************)
IsPyPi(p)  == p.kind.tag = "PyPi"
IsConda(p) == p.kind.tag = "Conda"
Froms(ups) == [i \in 1..Len(ups) |-> ups[i].from]
Tos(ups)   == [i \in 1..Len(ups) |-> ups[i].to]

\* the names the pypi sort puts first
BootstrapNames == {"pip", "wheel", "setuptools", "six"}

\* the comparator of pypi_install_pkgs.sort_by
PypiCmp(a, b) ==
    IF a.name \in BootstrapNames THEN "Less"
    ELSE IF b.name \in BootstrapNames THEN "Less"
    ELSE IF NameLess(a.name, b.name) THEN "Less"
    ELSE IF a.name = b.name THEN "Equal"
    ELSE "Greater"

\* the comparator of pypi_adds.sort_by (main.rs)
PypiAddsCmp(a, b) ==
    IF a.name = "pip" THEN "Less"
    ELSE IF b.name = "pip" THEN "Greater"
    ELSE IF a.name \in {"wheel", "setuptools"} THEN "Less"
    ELSE IF b.name \in {"wheel", "setuptools"} THEN "Greater"
    ELSE IF NameLess(a.name, b.name) THEN "Less"
    ELSE IF a.name = b.name THEN "Equal"
    ELSE "Greater"

\* the comparator of conda_adds.sort_by (main.rs)
CondaAddsCmp(a, b) ==
    IF a.name = "python" THEN "Less"
    ELSE IF b.name = "python" THEN "Greater"
    ELSE IF NameLess(a.name, b.name) THEN "Less"
    ELSE IF a.name = b.name THEN "Equal"
    ELSE "Greater"

\* the closure given to sort_by at the call site by
IsLess(by, a, b) ==
    "Less" = (IF by = "pypi_install_pkgs" THEN PypiCmp(a, b)
              ELSE IF by = "pypi_adds" THEN PypiAddsCmp(a, b)
              ELSE CondaAddsCmp(a, b))

\* slice::sort_by on a slice of at most 20 elements is an insertion sort.
\* The standard library has had two of them.  The one that inserts v[i] into
\* the sorted v[..i], for i going up, moves it left past every element it is
\* less than:
RECURSIVE TailHole(_, _, _, _)
TailHole(by, sorted, x, j) ==
    IF j = 0 THEN 0
    ELSE IF IsLess(by, x, sorted[j]) THEN TailHole(by, sorted, x, j - 1)
    ELSE j

InsertTail(by, sorted, x) ==
    LET hole == TailHole(by, sorted, x, Len(sorted))
    IN  SubSeq(sorted, 1, hole) \o <<x>> \o SubSeq(sorted, hole + 1, Len(sorted))

RECURSIVE SortShiftLeft(_, _, _)
SortShiftLeft(by, v, n) ==
    IF n = 0 THEN <<>> ELSE InsertTail(by, SortShiftLeft(by, v, n - 1), v[n])

\* The one that inserts v[i] into the sorted v[i+1..], for i going down,
\* moves it right past every element that is less than it:
RECURSIVE HeadHole(_, _, _, _)
HeadHole(by, sorted, x, j) ==
    IF j > Len(sorted) THEN Len(sorted)
    ELSE IF IsLess(by, sorted[j], x) THEN HeadHole(by, sorted, x, j + 1)
    ELSE j - 1

InsertHead(by, x, sorted) ==
    LET hole == HeadHole(by, sorted, x, 1)
    IN  SubSeq(sorted, 1, hole) \o <<x>> \o SubSeq(sorted, hole + 1, Len(sorted))

RECURSIVE SortShiftRight(_, _, _)
SortShiftRight(by, v, i) ==
    IF i > Len(v) THEN <<>> ELSE InsertHead(by, v[i], SortShiftRight(by, v, i + 1))

\* what v.sort_by(closure) can leave, whichever standard library was built against
SortByOutcomes(by, v) == {SortShiftLeft(by, v, Len(v)), SortShiftRight(by, v, 1)}

\* pypi_install_pkgs.sort_by of collect_packages
PypiSortOutcomes(ps) == SortByOutcomes("pypi_install_pkgs", ps)

\* the four lists of collect_packages before the sort, with the arm of a
\* Conda -> Conda update pushing the delete only
CollectUnsortedDropsCondaTarget(d) ==
    LET ToPyPi(u)      == IsPyPi(u.to)
        ToConda(u)     == IsConda(u.to) /\ IsPyPi(u.from)
        FromConda(u)   == IsConda(u.from)
        PyPiToConda(u) == IsPyPi(u.from) /\ IsConda(u.to)
    IN  [conda_install_pkgs |-> SelectSeq(d.adds, IsConda) \o Tos(SelectSeq(d.updates, ToConda)),
         conda_delete_pkgs  |-> Froms(SelectSeq(d.updates, FromConda)) \o SelectSeq(d.deletes, IsConda),
         pypi_install_pkgs  |-> SelectSeq(d.adds, IsPyPi) \o Tos(SelectSeq(d.updates, ToPyPi)),
         pypi_delete_pkgs   |-> Froms(SelectSeq(d.updates, PyPiToConda)) \o SelectSeq(d.deletes, IsPyPi)]

\* the four lists of collect_packages before the sort
CollectUnsorted(d) ==
    LET ToPyPi(u)      == IsPyPi(u.to)
        ToConda(u)     == IsConda(u.to)
        FromConda(u)   == IsConda(u.from)
        PyPiToConda(u) == IsPyPi(u.from) /\ IsConda(u.to)
    IN  [conda_install_pkgs |-> SelectSeq(d.adds, IsConda) \o Tos(SelectSeq(d.updates, ToConda)),
         conda_delete_pkgs  |-> Froms(SelectSeq(d.updates, FromConda)) \o SelectSeq(d.deletes, IsConda),
         pypi_install_pkgs  |-> SelectSeq(d.adds, IsPyPi) \o Tos(SelectSeq(d.updates, ToPyPi)),
         pypi_delete_pkgs   |-> Froms(SelectSeq(d.updates, PyPiToConda)) \o SelectSeq(d.deletes, IsPyPi)]

\* collect_packages: the values it can return
CollectPackages(d) ==
    {[CollectUnsorted(d) EXCEPT !.pypi_install_pkgs = sorted] :
        sorted \in PypiSortOutcomes(CollectUnsorted(d).pypi_install_pkgs)}

(***************************************************************************)
(* action/install.rs: install().  The environment is what `conda list`     *)
(* reports of it: name -> <<version, build>> or <<version, build,          *)
(* channel>>, the tokens that follow the name on its line.                 *)
(***************************************************************************)
max_failed == 50

\* Display for Package ({} format): name==version, name=version=build
PackageToString(p) ==
    IF IsPyPi(p) THEN <<p.name, "==", p.version>>
                 ELSE <<p.name, "=", p.version, "=", p.kind.build>>

ToStrings(ps) == [i \in 1..Len(ps) |-> PackageToString(ps[i])]

\* the tokens `conda list` prints after the name of a package
EnvTokens(version, build, channel) ==
    IF channel = "defaults" THEN <<version, build>> ELSE <<version, build, channel>>

\* conda remove -n env --force -y names.. / pip uninstall -y names..
RemoveEffect(e, names) == [n \in (DOMAIN e) \ Range(names) |-> e[n]]

\* conda install --no-deps --force-reinstall -c channels.. name=version=build..
\* with channel_of the channel each package is found in
CondaInstallEffect(e, args, channel_of) ==
    LET named == {args[i][1] : i \in 1..Len(args)}
        Arg(n) == CHOOSE a \in Range(args) : a[1] = n
    IN  [n \in (DOMAIN e) \cup named |->
            IF n \in named THEN EnvTokens(Arg(n)[3], Arg(n)[5], channel_of[n]) ELSE e[n]]

\* pip install --no-deps name==version
PipInstallEffect(e, arg) == MapInsert(e, arg[1], <<arg[3], "pypi_0", "pypi">>)

\* the failures a subprocess may end with, while the run may see more failures
Faults(S) == IF failures < fault_cap THEN S ELSE {}

\* return Err(e)
ReturnErr(e) ==
    /\ pc' = "failed"
    /\ result' = Err(e)

\* a listing whose failure is never taken for a missing environment
NeverEnvLocationNotFound(error) == FALSE

\* lines 27 (and action/mod.rs 50):
\* error.to_string().contains("EnvironmentLocationNotFound")
EnvLocationNotFound(error) == error = "EnvironmentLocationNotFound"

\* lines 19-41 (and 61 when the environment is not re-created): conda list,
\* the old and the new recipe, the diff
ListEnv ==
    /\ pc = "list_env"
    /\ \E out \in (IF env_exists THEN {"ok"} ELSE {"EnvironmentLocationNotFound"})
                    \cup Faults({"error"}) :
          LET listed == RecipeTryFrom(Listing(env))
              new    == RecipeTryFrom(new_text)
              need_create_env == out # "ok" \/ force_reinstall
              old    == IF need_create_env THEN RecipeTryFrom(<<>>).value ELSE listed.value
          IN  IF out # "ok" /\ ~EnvLocationNotFound(out) THEN
                  /\ ReturnErr("conda list failed")
                  /\ failures' = failures + (IF out = "error" THEN 1 ELSE 0)
                  /\ UNCHANGED <<diff, collections>>
              ELSE IF out = "ok" /\ listed.tag = "Err" THEN
                  /\ ReturnErr(listed.error)
                  /\ UNCHANGED <<diff, collections, failures>>
              ELSE IF new.tag = "Err" THEN
                  /\ ReturnErr(new.error)
                  /\ UNCHANGED <<diff, collections, failures>>
              ELSE
                  /\ \E old_order \in Perms(DOMAIN old.packages),
                        rest_order \in Perms(DOMAIN new.value.packages \ DOMAIN old.packages) :
                        diff' = RecipeDiffOf(old.packages, new.value.packages,
                                             old_order, rest_order)
                  /\ IF need_create_env
                     THEN pc' = "env_remove" /\ collections' = collections
                     ELSE pc' = "delete_conda" /\ collections' \in CollectPackages(diff')
                  /\ UNCHANGED <<result, failures>>
    /\ UNCHANGED <<env_exists, env, force_reinstall, pkgs, current_failed, requeues, touched,
                   fault_cap, signalVars, loopGhost, parseVars, old_text, new_text, diff_info, mainVars>>

\* line 54: conda env remove -n env
EnvRemove ==
    /\ pc = "env_remove"
    /\ \E out \in {"ok"} \cup Faults({"error"}) :
          IF out = "ok"
          THEN /\ env_exists' = FALSE
               /\ env' = EmptyMap
               /\ pc' = "env_create"
               /\ UNCHANGED <<result, failures>>
          ELSE /\ ReturnErr("conda env remove failed")
               /\ failures' = failures + 1
               /\ UNCHANGED <<env_exists, env>>
    /\ UNCHANGED <<force_reinstall, collections, pkgs, current_failed, requeues, touched,
                   fault_cap, signalVars, loopGhost, parseVars, diffVars, mainVars>>

\* lines 55-61: conda create -y --no-default-packages -n env, collect_packages
EnvCreate ==
    /\ pc = "env_create"
    /\ \E out \in {"ok"} \cup Faults({"error"}) :
          IF out = "ok"
          THEN /\ env_exists' = TRUE
               /\ env' = EmptyMap
               /\ pc' = "delete_conda"
               /\ collections' \in CollectPackages(diff)
               /\ UNCHANGED <<result, failures>>
          ELSE /\ ReturnErr("conda create failed")
               /\ failures' = failures + 1
               /\ UNCHANGED <<env_exists, env, collections>>
    /\ UNCHANGED <<force_reinstall, pkgs, current_failed, requeues, touched,
                   fault_cap, signalVars, loopGhost, parseVars, diffVars, mainVars>>

\* lines 63-79: conda remove of the conda packages to delete
DeleteConda ==
    /\ pc = "delete_conda"
    /\ LET names == PkgNames(collections.conda_delete_pkgs) IN
       \E out \in IF names = <<>> THEN {"skip"} ELSE {"ok"} \cup Faults({"error"}) :
          IF out = "error"
          THEN /\ ReturnErr("conda remove failed")
               /\ failures' = failures + 1
               /\ UNCHANGED <<env, touched>>
          ELSE /\ env' = RemoveEffect(env, names)
               /\ touched' = touched \cup Range(names)
               /\ pc' = "delete_pypi"
               /\ UNCHANGED <<result, failures>>
    /\ UNCHANGED <<env_exists, force_reinstall, collections, pkgs, current_failed, requeues,
                   fault_cap, signalVars, loopGhost, parseVars, diffVars, mainVars>>

\* lines 80-91: pip uninstall of the pypi packages to delete
DeletePypi ==
    /\ pc = "delete_pypi"
    /\ LET names == PkgNames(collections.pypi_delete_pkgs) IN
       \E out \in IF names = <<>> THEN {"skip"} ELSE {"ok"} \cup Faults({"error"}) :
          IF out = "error"
          THEN /\ ReturnErr("pip uninstall failed")
               /\ failures' = failures + 1
               /\ UNCHANGED <<env, touched>>
          ELSE /\ env' = RemoveEffect(env, names)
               /\ touched' = touched \cup Range(names)
               /\ pc' = "install_conda"
               /\ UNCHANGED <<result, failures>>
    /\ UNCHANGED <<env_exists, force_reinstall, collections, pkgs, current_failed, requeues,
                   fault_cap, signalVars, loopGhost, parseVars, diffVars, mainVars>>

\* the channels handed to conda install: those of the new recipe
Channels == RecipeTryFrom(new_text).value.channels

\* lines 132-218: conda install of the conda packages to install.  The
\* loop is left when the child exits, whatever its exit status; a SIGTERM or
\* a ctrl-c kills the child and returns the error.  A child that fails or is
\* killed has linked some of the packages, not all of them.
InstallConda ==
    /\ pc = "install_conda"
    /\ LET args  == ToStrings(collections.conda_install_pkgs)
           names == Range(PkgNames(collections.conda_install_pkgs))
       IN
       \E out \in IF args = <<>> THEN {"skip"}
                  ELSE {"ok"} \cup Faults({"exit_nonzero", "receive sigterm", "receive ctrl c"}) :
          /\ IF out = "skip"
             THEN UNCHANGED <<env, touched>>
             ELSE /\ \E channel_of \in [names -> Channels \cup {"defaults"}],
                        linked \in (IF out = "ok" THEN {names} ELSE (SUBSET names) \ {names}) :
                        LET Linked(a) == a[1] \in linked IN
                        env' = CondaInstallEffect(env, SelectSeq(args, Linked), channel_of)
                  /\ touched' = touched \cup names
          /\ failures' = IF out \in {"skip", "ok"} THEN failures ELSE failures + 1
          /\ IF out \in {"receive sigterm", "receive ctrl c"}
             THEN ReturnErr(out)
             ELSE pc' = "pip_bootstrap" /\ UNCHANGED result
          /\ sig_handlers' = (sig_handlers \/ out # "skip")
          /\ signal_seen' = (IF out = "receive sigterm" THEN "SIGTERM"
                             ELSE IF out = "receive ctrl c" THEN "SIGINT" ELSE signal_seen)
    /\ UNCHANGED <<env_exists, force_reinstall, collections, pkgs, current_failed, requeues,
                   fault_cap, loopGhost, parseVars, diffVars, mainVars>>

\* the versions of pip a channel may offer
PipVersions == {"1", "2"}

\* lines 220-235: conda install pip when pip is among the pypi packages to
\* install, then the queue of the install loop
PipBootstrap ==
    /\ pc = "pip_bootstrap"
    /\ LET todo == collections.pypi_install_pkgs IN
       \E out \in IF todo = <<>> \/ "pip" \notin Range(PkgNames(todo))
                  THEN {"skip"} ELSE {"ok"} \cup Faults({"error"}) :
          IF out = "error"
          THEN /\ ReturnErr("conda install pip failed")
               /\ failures' = failures + 1
               /\ UNCHANGED <<env, touched, pkgs, current_failed>>
          ELSE /\ IF out = "ok"
                  THEN /\ \E v \in PipVersions : env' = MapInsert(env, "pip", <<v, "b0">>)
                       /\ touched' = touched \cup {"pip"}
                  ELSE UNCHANGED <<env, touched>>
               /\ IF todo = <<>>
                  THEN pc' = "finish" /\ UNCHANGED <<pkgs, current_failed>>
                  ELSE pc' = "pypi_loop" /\ pkgs' = todo /\ current_failed' = 0
               /\ UNCHANGED <<result, failures>>
    /\ UNCHANGED <<env_exists, force_reinstall, collections, requeues,
                   fault_cap, signalVars, loopGhost, parseVars, diffVars, mainVars>>

\* what one iteration of the install loop leaves of the queue, the failure
\* counter and the control, for the outcome out of pip install
\* one iteration of the loop, with the failed package put back at the front
LoopStepPushFront(out) ==
    LET pkg == Head(pkgs) IN
    IF out = "ok" THEN
        [pkgs |-> Tail(pkgs), current_failed |-> current_failed, abort |-> FALSE, pushed |-> FALSE]
    ELSE IF out = "not find a version" THEN
        [pkgs |-> Tail(pkgs), current_failed |-> current_failed, abort |-> TRUE, pushed |-> FALSE]
    ELSE IF current_failed + 1 = max_failed THEN
        [pkgs |-> Tail(pkgs), current_failed |-> current_failed + 1, abort |-> TRUE, pushed |-> FALSE]
    ELSE
        [pkgs |-> <<pkg>> \o Tail(pkgs), current_failed |-> current_failed + 1,
         abort |-> FALSE, pushed |-> TRUE]

\* one iteration of the loop, with every failure handled as a transient one
LoopStepRetriesNotFound(out) ==
    LET pkg == Head(pkgs) IN
    IF out = "ok" THEN
        [pkgs |-> Tail(pkgs), current_failed |-> current_failed, abort |-> FALSE, pushed |-> FALSE]
    ELSE IF current_failed + 1 = max_failed THEN
        [pkgs |-> Tail(pkgs), current_failed |-> current_failed + 1, abort |-> TRUE, pushed |-> FALSE]
    ELSE
        [pkgs |-> Tail(pkgs) \o <<pkg>>, current_failed |-> current_failed + 1,
         abort |-> FALSE, pushed |-> TRUE]

\* one iteration of the loop, with no budget for the transient failures
LoopStepNeverAborts(out) ==
    LET pkg == Head(pkgs) IN
    IF out = "ok" THEN
        [pkgs |-> Tail(pkgs), current_failed |-> current_failed, abort |-> FALSE, pushed |-> FALSE]
    ELSE IF out = "not find a version" THEN
        [pkgs |-> Tail(pkgs), current_failed |-> current_failed, abort |-> TRUE, pushed |-> FALSE]
    ELSE
        [pkgs |-> Tail(pkgs) \o <<pkg>>, current_failed |-> current_failed + 1,
         abort |-> FALSE, pushed |-> TRUE]

LoopStep(out) ==
    LET pkg == Head(pkgs) IN
    IF out = "ok" THEN
        [pkgs |-> Tail(pkgs), current_failed |-> current_failed, abort |-> FALSE, pushed |-> FALSE]
    ELSE IF out = "not find a version" THEN
        [pkgs |-> Tail(pkgs), current_failed |-> current_failed, abort |-> TRUE, pushed |-> FALSE]
    ELSE IF current_failed + 1 = max_failed THEN
        [pkgs |-> Tail(pkgs), current_failed |-> current_failed + 1, abort |-> TRUE, pushed |-> FALSE]
    ELSE
        [pkgs |-> Tail(pkgs) \o <<pkg>>, current_failed |-> current_failed + 1,
         abort |-> FALSE, pushed |-> TRUE]

\* lines 236-270: one iteration of the pypi install loop
PipInstall ==
    /\ pc = "pypi_loop"
    /\ pkgs # <<>>
    /\ \E out \in {"ok"} \cup Faults({"not find a version", "transient"}) :
          LET step == LoopStep(out) IN
          /\ pkgs' = step.pkgs
          /\ current_failed' = step.current_failed
          /\ requeues' = IF step.pushed THEN requeues + 1 ELSE requeues
          /\ invocations' = invocations + 1
          /\ increments' = IF out = "ok" THEN increments + 1 ELSE increments
          /\ last_outcome' = out
          /\ failures' = IF out = "ok" THEN failures ELSE failures + 1
          /\ IF out = "ok"
             THEN /\ env' = PipInstallEffect(env, PackageToString(Head(pkgs)))
                  /\ touched' = touched \cup {Head(pkgs).name}
             ELSE UNCHANGED <<env, touched>>
          /\ IF step.abort
             THEN ReturnErr(out)
             ELSE /\ pc' = IF step.pkgs = <<>> THEN "finish" ELSE "pypi_loop"
                  /\ UNCHANGED result
    /\ UNCHANGED <<env_exists, force_reinstall, collections, fault_cap, signalVars, parseVars, diffVars, mainVars>>

\* lines 273-276: the loop is left, install returns Ok(())
Finish ==
    /\ pc = "finish"
    /\ pc' = "done"
    /\ result' = Ok(<<>>)
    /\ UNCHANGED <<env_exists, env, force_reinstall, collections, pkgs, current_failed,
                   requeues, touched, failures, fault_cap, signalVars, loopGhost, parseVars, diffVars, mainVars>>

(***************************************************************************)
(* install() run on an environment and a new recipe.                       *)
(***************************************************************************)
InstallVariants == {
    <<"1", "b0">>,
    <<"2", "b0">>,
    <<"1", "pypi_0", "pypi">>,
    <<"2", "pypi_0", "pypi">>
}

\* the environments install() is run on
Envs == UNION {[S -> InstallVariants] : S \in SUBSET Names}

\* the new recipes: the listing of an environment, or a text with a bad line
InstallTexts == {Listing(f) : f \in Envs} \cup {<<<<"numpy", WS, "1">>>>}

InitInstall ==
    /\ MainIdle
    /\ pc = "list_env"
    /\ env_exists \in BOOLEAN
    /\ env \in (IF env_exists THEN Envs ELSE {EmptyMap})
    /\ force_reinstall \in BOOLEAN
    /\ new_text \in InstallTexts
    /\ old_text = <<>>
    /\ diff = Unset
    /\ diff_info = Unset
    /\ text = <<>>
    /\ recipe = Unset
    /\ conda_recipe = Unset
    /\ collections = Unset
    /\ pkgs = <<>>
    /\ current_failed = 0
    /\ result = Unset
    /\ requeues = 0
    /\ invocations = 0
    /\ increments = 0
    /\ last_outcome = "none"
    /\ touched = {}
    /\ failures = 0
    /\ fault_cap = MaxFaults
    /\ sig_handlers = FALSE
    /\ signal_seen = "none"

NextInstall ==
    \/ ListEnv
    \/ EnvRemove
    \/ EnvCreate
    \/ DeleteConda
    \/ DeletePypi
    \/ InstallConda
    \/ PipBootstrap
    \/ PipInstall
    \/ Finish

SpecInstall == InitInstall /\ [][NextInstall]_vars

(***************************************************************************)
(* The pypi install loop of install() on its own: the state install()      *)
(* enters the loop with when a fresh, empty environment gets a new recipe  *)
(* of pypi packages, and no bound on the failures of pip.                  *)
(***************************************************************************)
RetryUniverse == <<"numpy", "aiohttp", "six">>
RetryNames ==
    {RetryUniverse[i] : i \in 1..(IF MaxQueue < Len(RetryUniverse) THEN MaxQueue ELSE Len(RetryUniverse))}

RetryTexts ==
    {Listing(f) : f \in UNION {[S -> {<<"1", "pypi_0", "pypi">>}] : S \in SUBSET RetryNames \ {{}}}}

InitRetry ==
    /\ MainIdle
    /\ new_text \in RetryTexts
    /\ env_exists = TRUE
    /\ env = EmptyMap
    /\ force_reinstall = FALSE
    /\ old_text = <<>>
    /\ \E new \in {RecipeTryFrom(new_text).value.packages} :
       \E rest_order \in Perms(DOMAIN new) :
          diff = RecipeDiffOf(EmptyMap, new, <<>>, rest_order)
    /\ diff_info = Unset
    /\ text = <<>>
    /\ recipe = Unset
    /\ conda_recipe = Unset
    /\ collections \in CollectPackages(diff)
    /\ pkgs = collections.pypi_install_pkgs
    /\ current_failed = 0
    /\ pc = "pypi_loop"
    /\ result = Unset
    /\ requeues = 0
    /\ invocations = 0
    /\ increments = 0
    /\ last_outcome = "none"
    /\ touched = {}
    /\ failures = 0
    /\ fault_cap = max_failed + 1
    /\ sig_handlers = FALSE
    /\ signal_seen = "none"

NextRetry ==
    \/ PipInstall
    \/ Finish

SpecRetry == InitRetry /\ [][NextRetry]_vars

(***************************************************************************)
(* Properties of install().                                                *)
(***************************************************************************)
\* name -> <<version, build>>, with "pypi" in the place of the build of a
\* pypi package, of an environment
EnvView(e) ==
    [n \in DOMAIN e |->
        IF Len(e[n]) = 3 /\ e[n][3] = "pypi" THEN <<e[n][1], "pypi">> ELSE <<e[n][1], e[n][2]>>]

\* the same of the packages of a recipe
RecipeView(packages) ==
    [n \in DOMAIN packages |->
        IF IsPyPi(packages[n]) THEN <<packages[n].version, "pypi">>
                               ELSE <<packages[n].version, packages[n].kind.build>>]

NewPackagesOfRun == RecipeTryFrom(new_text).value.packages

\* the names the plan of the run lists
PlannedNames ==
    Range(PkgNames(diff.adds)) \cup Range(PkgNames(diff.deletes)) \cup Range(FromNames(diff.updates))

\* C1: when install() returns Ok and no subprocess has failed, the
\* environment holds exactly the packages of the new recipe, each with the
\* version and the build (or the pypi kind) the new recipe gives it, and no
\* remove or install command was given a package the plan does not list.
C1_EnvEqualsNewRecipe ==
    (pc = "done" /\ failures = 0) =>
        /\ result = Ok(<<>>)
        /\ EnvView(env) = RecipeView(NewPackagesOfRun)
        /\ touched \subseteq PlannedNames

\* a run that ended well after updating a conda package in place, deleting
\* another package and leaving nothing else to do
C1_Witness ==
    /\ pc = "done"
    /\ failures = 0
    /\ ~force_reinstall
    /\ diff.deletes # <<>>
    /\ \E i \in 1..Len(diff.updates) : IsConda(diff.updates[i].from) /\ IsConda(diff.updates[i].to)

\* C10: the retry budget lets 50 packages be put back on the queue, and the
\* loop gives up on a transient failure only when it is the 51st.
C10_Original ==
    (pc = "failed" /\ result = Err("transient")) =>
        /\ requeues = max_failed
        /\ current_failed = max_failed + 1

\* the pypi install loop as the sequential code it is: an iteration that can
\* run does run
SpecRetryFair == InitRetry /\ [][NextRetry]_vars /\ WF_vars(NextRetry)

(***************************************************************************)
(* Properties of the pypi install loop.                                    *)
(***************************************************************************)
\* the packages the loop was entered with
LoopPackages == collections.pypi_install_pkgs

\* whether the environment holds the pypi package p
PipInstalled(p) == p.name \in DOMAIN env /\ env[p.name] = <<p.version, "pypi_0", "pypi">>

\* C11: a package whose install fails with a transient error goes to the
\* end of the queue, behind every package that was pending, and the loop
\* always takes the front of the queue; while the run has not aborted every
\* package of the loop is either still queued or installed.
C11_RequeuedAtEnd ==
    /\ [](pc \in {"pypi_loop", "finish", "done"} =>
            \A i \in 1..Len(LoopPackages) :
                \/ LoopPackages[i] \in Range(pkgs)
                \/ PipInstalled(LoopPackages[i]))
    /\ [][(invocations' = invocations + 1 /\ last_outcome' = "transient" /\ pc' # "failed")
            => pkgs' = Tail(pkgs) \o <<Head(pkgs)>>]_vars
    /\ [][(invocations' = invocations + 1 /\ last_outcome' = "ok")
            => /\ Head(pkgs).name \in DOMAIN env'
               /\ env'[Head(pkgs).name] = <<Head(pkgs).version, "pypi_0", "pypi">>
               /\ pkgs' = Tail(pkgs)]_vars

\* the first package of a queue of two has failed once and now stands behind
\* the other one
C11_Witness ==
    /\ pc = "pypi_loop"
    /\ last_outcome = "transient"
    /\ invocations = 1
    /\ Len(pkgs) = 2
    /\ pkgs[2] = LoopPackages[1]
    /\ pkgs[1] = LoopPackages[2]

\* C12: a `pip install` that fails with "not find a version" ends the run
\* with that error at once: the package is not put back, current_failed is
\* not incremented, and no further step of the run can be taken.
C12_NotFoundAborts ==
    /\ [][(invocations' = invocations + 1 /\ last_outcome' = "not find a version")
            => /\ pc' = "failed"
               /\ result' = Err("not find a version")
               /\ pkgs' = Tail(pkgs)
               /\ current_failed' = current_failed
               /\ requeues' = requeues]_vars
    /\ [](pc = "failed" => ~ENABLED NextRetry)

\* the run was ended by "not find a version" after a transient failure, with
\* a package still queued
C12_Witness ==
    /\ last_outcome = "not find a version"
    /\ pc = "failed"
    /\ current_failed > 0
    /\ pkgs # <<>>

NumSortNames == 3

SortUniverse == <<"python", "six", "numpy", "pip", "wheel">>
SortNames ==
    {SortUniverse[i] : i \in 1..(IF NumSortNames < Len(SortUniverse) THEN NumSortNames
                                 ELSE Len(SortUniverse))}

OldSortVariants == {<<"1", "pypi_0", "pypi">>}
NewSortVariants == {<<"1", "b0">>, <<"1", "pypi_0", "pypi">>, <<"2", "pypi_0", "pypi">>}

InitSort ==
    /\ InstallIdle
    /\ main_pc = "sort_adds"
    /\ conda_adds = <<>>
    /\ pypi_adds = <<>>
    /\ FetchIdle
    /\ old_text \in {Listing(f) : f \in UNION {[S -> OldSortVariants] : S \in SUBSET SortNames}}
    /\ new_text \in {Listing(f) : f \in UNION {[S -> NewSortVariants] : S \in SUBSET SortNames}}
    /\ diff = Unset
    /\ diff_info = Unset
    /\ text = <<>>
    /\ recipe = Unset
    /\ conda_recipe = Unset

\* action/install.rs line 61: collect_packages(&diff)
Collect ==
    /\ diff # Unset
    /\ collections = Unset
    /\ collections' \in CollectPackages(diff)
    /\ UNCHANGED <<pc, env_exists, env, force_reinstall, pkgs, current_failed, result, requeues,
                   touched, failures, fault_cap, signalVars, loopGhost, parseVars, diffVars, mainVars>>

\* main.rs lines 183-188 and 205-212: the two sort_by of the adds
SortAdds ==
    /\ main_pc = "sort_adds"
    /\ diff_info # Unset
    /\ main_pc' = "install_adds"
    /\ conda_adds' \in SortByOutcomes("conda_adds", diff_info.conda.add)
    /\ pypi_adds' \in SortByOutcomes("pypi_adds", diff_info.pypi.add)
    /\ UNCHANGED <<parseVars, diffVars, installVars, fetchVars, linkVars, planVars, envVars, auxVars>>

NextSort ==
    \/ Diff
    \/ Collect
    \/ CondaDiff
    \/ SortAdds

SpecSort == InitSort /\ [][NextSort]_vars

\* the order the bootstrap names are to come in
BootstrapOrder == <<"pip", "wheel", "setuptools", "six">>

\* the names of S in the bootstrap order: pip, wheel, setuptools, six first,
\* the others after them by name
InBootstrapOrder(S) ==
    LET Present(n) == n \in S
    IN  SelectSeq(BootstrapOrder, Present) \o SortedNames(S \ BootstrapNames)

\* the names of S with python first and the others after it by name
PythonFirst(S) ==
    (IF "python" \in S THEN <<"python">> ELSE <<>>) \o SortedNames(S \ {"python"})

\* C14: the pypi packages to install are listed with pip, wheel, setuptools
\* and six first, in that order, and the others after them by name.
C14_Original ==
    /\ collections # Unset =>
          LET ns == PkgNames(collections.pypi_install_pkgs) IN ns = InBootstrapOrder(Range(ns))
    /\ main_pc = "install_adds" =>
          LET ns == PkgNames(pypi_adds) IN ns = InBootstrapOrder(Range(ns))

\* C15: the conda packages to add are installed python first, the others
\* after it by name.
C15_Original ==
    /\ (collections # Unset /\ diff.updates = <<>>) =>
          LET ns == PkgNames(collections.conda_install_pkgs) IN ns = PythonFirst(Range(ns))
    /\ main_pc = "install_adds" =>
          LET ns == PkgNames(conda_adds) IN ns = PythonFirst(Range(ns))

\* whether the environment holds the package p of a recipe
Installed(p) ==
    /\ p.name \in DOMAIN env
    /\ EnvView(env)[p.name] = (IF IsPyPi(p) THEN <<p.version, "pypi">>
                                            ELSE <<p.version, p.kind.build>>)

\* C16: the plan is applied adds first, then updates, then deletes: once a
\* package of the plan's deletes has been handed to a remove command, every
\* add and every update target is installed.
C16_Original ==
    (pc # "idle" /\ pc # "failed" /\ diff # Unset
        /\ \E i \in 1..Len(diff.deletes) : diff.deletes[i].name \in touched)
    => /\ \A i \in 1..Len(diff.adds) : Installed(diff.adds[i])
       /\ \A i \in 1..Len(diff.updates) : Installed(diff.updates[i].to)

(***************************************************************************)
(* conda/mod.rs, conda/cache.rs, conda/index.rs: the names of the cached   *)
(* files, the package cache and the channel index.  A path is the sequence *)
(* of the pieces it is formatted from.                                     *)
(***************************************************************************)
\* conda/mod.rs tarball_name: format!("{name}-{version}-{build}.tar.bz2")
tarball_name(name, version, build) == <<name, "-", version, "-", build, ".tar.bz2">>

\* a cache that names the directory after the tarball
ExtractedDirAsTarball(name, version, build) == <<name, "-", version, "-", build, ".tar.bz2">>

\* conda/cache.rs extracted_dir: format!("{name}-{version}-{build}")
extracted_dir(name, version, build) == <<name, "-", version, "-", build>>

\* CondaCache.packages_dir
packages_dir == <<"{root_prefix}", "/", "pkgs">>

\* PathBuf::join of a relative path
Join(dir, rel) == dir \o <<"/">> \o rel

\* Path::file_name: what follows the last separator
RECURSIVE FileName(_)
FileName(path) ==
    IF path = <<>> \/ path[Len(path)] = "/" THEN <<>>
    ELSE FileName(SubSeq(path, 1, Len(path) - 1)) \o <<path[Len(path)]>>

\* str::trim_end_matches: every trailing repetition of the suffix is removed
RECURSIVE TrimEndMatches(_, _)
TrimEndMatches(str, suffix) ==
    IF str # <<>> /\ str[Len(str)] = suffix
    THEN TrimEndMatches(SubSeq(str, 1, Len(str) - 1), suffix)
    ELSE str

\* index.rs PackageData (the fields that name it) and Package
PackageData(name, version, build) == [name |-> name, version |-> version, build |-> build]
IndexPackage(data, channel) ==
    [tarball_name |-> tarball_name(data.name, data.version, data.build),
     data |-> data, channel |-> channel]

\* CondaCache::get_tarball
GetTarball(fs, p) ==
    LET tarball_path == Join(packages_dir, tarball_name(p.data.name, p.data.version, p.data.build))
    IN  IF tarball_path \in fs THEN Some(tarball_path) ELSE None

\* CondaCache::get_extracted_dir
GetExtractedDir(fs, p) ==
    LET pkg_dir == Join(packages_dir, extracted_dir(p.data.name, p.data.version, p.data.build))
    IN  IF pkg_dir \in fs THEN Some(pkg_dir) ELSE None

\* CondaCache::add_tarball: the file system after std::fs::write
AddTarball(fs, p) ==
    fs \cup {Join(packages_dir, tarball_name(p.data.name, p.data.version, p.data.build))}

\* CondaCache::unpack_tarball: the directory the tarball is unpacked into
UnpackDir(tarball) == Join(packages_dir, TrimEndMatches(FileName(tarball), ".tar.bz2"))

\* CondaCache::unpack_tarball: the result and the file system after it; a
\* tarball that cannot be decoded leaves the directory created
UnpackTarball(fs, p, decodes) ==
    IF GetTarball(fs, p) = None
    THEN [result |-> Err(<<"NotFound">>), fs |-> fs]
    ELSE [result |-> IF decodes THEN Ok(<<>>) ELSE Err(<<"decode">>),
          fs |-> fs \cup {UnpackDir(GetTarball(fs, p)[1])}]

\* CondaIndex::get: the packages the loops over the two hash maps can return
\* first; no package when the set is empty
IndexGet(idx, name, version, build) ==
    {IndexPackage(PackageData(name, version, build), c) :
        c \in {c \in DOMAIN idx : tarball_name(name, version, build) \in idx[c]}}

\* CondaIndex::get_by_spec
GetBySpec(idx, spec) == IndexGet(idx, spec.name, spec.version, spec.build)

\* CondaIndex::update_indexes left without effect on the loaded indexes
UpdateIndexesKeepsStale(idx, chans, served) == idx

\* CondaIndex::update_indexes: the repodata of the given channels is fetched
\* and loaded over what the index holds
UpdateIndexes(idx, chans, served) ==
    [c \in (DOMAIN idx) \cup chans |-> IF c \in chans THEN served[c] ELSE idx[c]]

(***************************************************************************)
(* main.rs install_conda_pkg for one spec.                                 *)
(***************************************************************************)
NumIndexSpecs == 2

IndexSpecUniverse == <<Spec("numpy", "1", "b0", None),
                       Spec("numpy", "2", "b0", Some("conda-forge")),
                       Spec("python", "3", "h1", None)>>
IndexSpecs ==
    {IndexSpecUniverse[i] : i \in 1..(IF NumIndexSpecs < Len(IndexSpecUniverse)
                                      THEN NumIndexSpecs ELSE Len(IndexSpecUniverse))}

\* the tarballs a repodata.json may list
Tarballs == {tarball_name(sp.name, sp.version, sp.build) : sp \in IndexSpecs}

\* the files of the packages directory that matter to a spec
CacheFilesOf(sp) ==
    {Join(packages_dir, tarball_name(sp.name, sp.version, sp.build)),
     Join(packages_dir, extracted_dir(sp.name, sp.version, sp.build))}

InitIndex ==
    /\ InstallIdle
    /\ old_text = <<>>
    /\ new_text = <<>>
    /\ diff = Unset
    /\ diff_info = Unset
    /\ text = <<>>
    /\ recipe = Unset
    /\ conda_recipe = Unset
    /\ conda_adds = <<>>
    /\ pypi_adds = <<>>
    /\ main_pc = "get_by_spec"
    /\ spec_arg \in IndexSpecs
    /\ index_channels \in {{"defaults"}, {"defaults", "conda-forge"}}
    /\ indexes \in [index_channels -> SUBSET Tarballs]
    /\ remote \in [index_channels -> SUBSET Tarballs]
    /\ files \in SUBSET CacheFilesOf(spec_arg)
    /\ resolved = Unset
    /\ got = NoCall
    /\ refetches = 0
    /\ downloads = 0
    /\ unpacks = 0
    /\ env_linked = FALSE
    /\ main_result = Unset
    /\ LinkIdle
    /\ PlanIdle
    /\ EnvIdle
    /\ AuxIdle

\* return Err(e) / panic of install_conda_pkg
MainReturn(to, e) ==
    /\ main_pc' = to
    /\ main_result' = e

\* lines 373-375: conda_index.get_by_spec(&spec)
GetBySpecFirst ==
    /\ main_pc = "get_by_spec"
    /\ IF GetBySpec(indexes, spec_arg) = {}
       THEN main_pc' = "update_indexes" /\ UNCHANGED resolved
       ELSE main_pc' = "get_tarball" /\ resolved' \in GetBySpec(indexes, spec_arg)
    /\ UNCHANGED <<spec_arg, index_channels, indexes, remote, files, got, refetches, downloads,
                   unpacks, env_linked, main_result, conda_adds, pypi_adds, linkVars, planVars, envVars, auxVars,
                   parseVars, diffVars, installVars>>

\* lines 376-378: conda_index.update_indexes(channels)?
UpdateIndexesOnMiss ==
    /\ main_pc = "update_indexes"
    /\ refetches' = refetches + 1
    /\ \E out \in {"ok", "fail to fetch"} :
          IF out = "ok"
          THEN /\ indexes' = UpdateIndexes(indexes, index_channels, remote)
               /\ main_pc' = "get_by_spec_again"
               /\ UNCHANGED main_result
          ELSE /\ MainReturn("failed", Err(<<out>>))
               /\ UNCHANGED indexes
    /\ UNCHANGED <<spec_arg, index_channels, remote, files, resolved, got, downloads,
                   unpacks, env_linked, conda_adds, pypi_adds, linkVars, planVars, envVars, auxVars,
                   parseVars, diffVars, installVars>>

\* the error of lines 379-385
NotFound(spec) == Err(<<"not found", spec.name, spec.version, spec.build, "in indexes">>)

\* lines 379-386: the second get_by_spec, ok_or_else(not found ..)?
GetBySpecAgain ==
    /\ main_pc = "get_by_spec_again"
    /\ IF GetBySpec(indexes, spec_arg) = {}
       THEN MainReturn("failed", NotFound(spec_arg)) /\ UNCHANGED resolved
       ELSE /\ main_pc' = "get_tarball"
            /\ resolved' \in GetBySpec(indexes, spec_arg)
            /\ UNCHANGED main_result
    /\ UNCHANGED <<spec_arg, index_channels, indexes, remote, files, got, refetches, downloads,
                   unpacks, env_linked, conda_adds, pypi_adds, linkVars, planVars, envVars, auxVars,
                   parseVars, diffVars, installVars>>

\* lines 388-390: conda_index.download(&pkg)? when the cache has no tarball
\* (index.rs download: fetch, add_tarball, unpack_tarball)
EnsureTarball ==
    /\ main_pc = "get_tarball"
    /\ IF GetTarball(files, resolved) # None
       THEN /\ main_pc' = "get_extracted_dir"
            /\ UNCHANGED <<files, downloads, unpacks, main_result>>
       ELSE \E out \in {"ok", "fail to fetch", "decode"} :
               IF out = "fail to fetch"
               THEN /\ MainReturn("failed", Err(<<out>>))
                    /\ UNCHANGED <<files, downloads, unpacks>>
               ELSE LET unpacked == UnpackTarball(AddTarball(files, resolved), resolved, out = "ok")
                    IN  /\ files' = unpacked.fs
                        /\ downloads' = downloads + 1
                        /\ unpacks' = unpacks + 1
                        /\ IF unpacked.result.tag = "Ok"
                           THEN main_pc' = "get_extracted_dir" /\ UNCHANGED main_result
                           ELSE MainReturn("failed", unpacked.result)
    /\ UNCHANGED <<spec_arg, index_channels, indexes, remote, resolved, got, refetches,
                   env_linked, conda_adds, pypi_adds, linkVars, planVars, envVars, auxVars, parseVars, diffVars, installVars>>

\* line 391: conda_cache.get_extracted_dir(&pkg).unwrap()
ExtractedDirUnwrap ==
    /\ main_pc = "get_extracted_dir"
    /\ got' = [method |-> "get_extracted_dir", pkg |-> resolved,
               value |-> GetExtractedDir(files, resolved)]
    /\ IF got'.value = None
       THEN MainReturn("panicked", [tag |-> "Panic", message |-> "unwrap on None"])
       ELSE main_pc' = "link" /\ UNCHANGED main_result
    /\ UNCHANGED <<spec_arg, index_channels, indexes, remote, files, resolved, refetches,
                   downloads, unpacks, env_linked, conda_adds, pypi_adds, linkVars, planVars, envVars, auxVars,
                   parseVars, diffVars, installVars>>

\* lines 392-493: the prefix record, the files of the package linked into
\* the environment, the record written to conda-meta
LinkPackage ==
    /\ main_pc = "link"
    /\ \E out \in {"ok", "io error"} :
          IF out = "ok"
          THEN /\ env_linked' = TRUE
               /\ MainReturn("done", Ok(<<>>))
          ELSE /\ env_linked' \in BOOLEAN
               /\ MainReturn("failed", Err(<<out>>))
    /\ UNCHANGED <<spec_arg, index_channels, indexes, remote, files, resolved, got, refetches,
                   downloads, unpacks, conda_adds, pypi_adds, linkVars, planVars, envVars, auxVars,
                   parseVars, diffVars, installVars>>

NextIndex ==
    \/ GetBySpecFirst
    \/ UpdateIndexesOnMiss
    \/ GetBySpecAgain
    \/ EnsureTarball
    \/ ExtractedDirUnwrap
    \/ LinkPackage

SpecIndex == InitIndex /\ [][NextIndex]_vars

\* whether some channel of the index / of the remote side lists the spec
Listed(idx, spec) == \E c \in DOMAIN idx : tarball_name(spec.name, spec.version, spec.build) \in idx[c]

\* C17: a spec the index does not hold makes install_conda_pkg refetch the
\* indices of the channels once and look again: it then goes on when the
\* index lists the spec and returns the not-found error of the spec when it
\* does not, with nothing downloaded, unpacked or linked.  A spec the index
\* holds is never refetched, and only a listed package reaches the cache and
\* the linker.
C17_RefetchOnceOnMiss ==
    /\ [](refetches <= 1)
    /\ [](main_pc = "update_indexes" => (refetches = 0 /\ ~Listed(indexes, spec_arg)))
    /\ [](main_pc = "get_by_spec_again" =>
            (refetches = 1 /\ \A c \in index_channels : indexes[c] = remote[c]))
    /\ []((main_pc \in {"get_tarball", "get_extracted_dir", "link", "done"}) =>
            /\ Listed(indexes, spec_arg)
            /\ resolved.tarball_name = tarball_name(spec_arg.name, spec_arg.version, spec_arg.build))
    /\ [](main_result = NotFound(spec_arg) =>
            /\ main_pc = "failed"
            /\ refetches = 1
            /\ ~Listed(remote, spec_arg)
            /\ downloads = 0
            /\ unpacks = 0
            /\ ~env_linked)
    /\ [][main_pc = "get_by_spec_again" =>
            IF Listed(remote, spec_arg)
            THEN main_pc' = "get_tarball" /\ main_result' = Unset
            ELSE main_result' = NotFound(spec_arg)]_vars
    /\ [][Listed(indexes, spec_arg) => refetches' = refetches]_vars

\* the spec was missing, the refetch brought it, and the package was linked
C17_Witness ==
    /\ main_pc = "done"
    /\ refetches = 1
    /\ downloads = 1
    /\ env_linked

(***************************************************************************)
(* The methods of CondaCache and CondaIndex::download, called in any order *)
(* on a packages directory in any state.                                   *)
(***************************************************************************)
CachePackages == {IndexPackage(PackageData(sp.name, sp.version, sp.build), "defaults") : sp \in IndexSpecs}

InitCache ==
    /\ InstallIdle
    /\ old_text = <<>>
    /\ new_text = <<>>
    /\ diff = Unset
    /\ diff_info = Unset
    /\ text = <<>>
    /\ recipe = Unset
    /\ conda_recipe = Unset
    /\ conda_adds = <<>>
    /\ pypi_adds = <<>>
    /\ main_pc = "cache"
    /\ spec_arg = Unset
    /\ index_channels = {}
    /\ indexes = EmptyMap
    /\ remote = EmptyMap
    /\ files \in SUBSET UNION {CacheFilesOf(sp) : sp \in IndexSpecs}
    /\ resolved = Unset
    /\ got = NoCall
    /\ refetches = 0
    /\ downloads = 0
    /\ unpacks = 0
    /\ env_linked = FALSE
    /\ main_result = Unset
    /\ LinkIdle
    /\ PlanIdle
    /\ EnvIdle
    /\ AuxIdle

\* what a call leaves alone besides files and got
CacheFrame ==
    UNCHANGED <<main_pc, spec_arg, index_channels, indexes, remote, resolved, refetches, downloads,
                unpacks, env_linked, main_result, conda_adds, pypi_adds, linkVars, planVars, envVars, auxVars,
                parseVars, diffVars, installVars>>

\* cache.rs 35-47
CallGetTarball ==
    /\ main_pc = "cache"
    /\ \E p \in CachePackages :
          got' = [method |-> "get_tarball", pkg |-> p, value |-> GetTarball(files, p)]
    /\ UNCHANGED files
    /\ CacheFrame

\* cache.rs 21-33
CallGetExtractedDir ==
    /\ main_pc = "cache"
    /\ \E p \in CachePackages :
          got' = [method |-> "get_extracted_dir", pkg |-> p, value |-> GetExtractedDir(files, p)]
    /\ UNCHANGED files
    /\ CacheFrame

\* cache.rs 49-60: std::fs::write(..)?, then Ok(self.get_tarball(pkg).unwrap())
CallAddTarball ==
    /\ main_pc = "cache"
    /\ \E p \in CachePackages, out \in {"ok", "io error"} :
          IF out = "ok"
          THEN /\ files' = AddTarball(files, p)
               /\ got' = [method |-> "add_tarball", pkg |-> p,
                          value |-> Ok(GetTarball(files', p)[1])]
          ELSE /\ UNCHANGED files
               /\ got' = [method |-> "add_tarball", pkg |-> p, value |-> Err(<<out>>)]
    /\ CacheFrame

\* cache.rs 62-94
CallUnpackTarball ==
    /\ main_pc = "cache"
    /\ \E p \in CachePackages, decodes \in BOOLEAN :
          /\ files' = UnpackTarball(files, p, decodes).fs
          /\ got' = [method |-> "unpack_tarball", pkg |-> p,
                     value |-> UnpackTarball(files, p, decodes).result]
    /\ CacheFrame

\* cache.rs 96-177: unpack when the directory is missing, read info/paths.json
\* and info/repodata_record.json; without the latter the record is built
\* from the package and the tarball path (get_tarball(pkg).unwrap())
CallTryGetPrefixRecord ==
    /\ main_pc = "cache"
    /\ \E p \in CachePackages, decodes \in BOOLEAN, has_record \in BOOLEAN :
          LET unpacked == IF GetExtractedDir(files, p) = None
                          THEN UnpackTarball(files, p, decodes)
                          ELSE [result |-> Ok(<<>>), fs |-> files]
          IN  /\ files' = unpacked.fs
              /\ got' = [method |-> "try_get_prefix_record", pkg |-> p,
                         value |-> IF unpacked.result.tag = "Err" THEN unpacked.result
                                   ELSE IF GetExtractedDir(unpacked.fs, p) = None
                                        THEN [tag |-> "Panic", message |-> "unwrap on None"]
                                   ELSE IF ~has_record /\ GetTarball(unpacked.fs, p) = None
                                        THEN [tag |-> "Panic", message |-> "unwrap on None"]
                                   ELSE Ok(<<"PrefixRecord">>)]
    /\ CacheFrame

\* index.rs 121-144: fetch the tarball, add_tarball, unpack_tarball
CallDownload ==
    /\ main_pc = "cache"
    /\ \E p \in CachePackages, out \in {"ok", "fail to fetch", "decode"} :
          IF out = "fail to fetch"
          THEN /\ UNCHANGED files
               /\ got' = [method |-> "download", pkg |-> p, value |-> Err(<<out>>)]
          ELSE /\ files' = UnpackTarball(AddTarball(files, p), p, out = "ok").fs
               /\ got' = [method |-> "download", pkg |-> p,
                          value |-> UnpackTarball(AddTarball(files, p), p, out = "ok").result]
    /\ CacheFrame

NextCache ==
    \/ CallGetTarball
    \/ CallGetExtractedDir
    \/ CallAddTarball
    \/ CallUnpackTarball
    \/ CallTryGetPrefixRecord
    \/ CallDownload

SpecCache == InitCache /\ [][NextCache]_vars

\* {pkgs_dir}/{name}-{version}-{build}.tar.bz2 and {pkgs_dir}/{name}-{version}-{build}
TarballPathOf(p) ==
    packages_dir \o <<"/", p.data.name, "-", p.data.version, "-", p.data.build, ".tar.bz2">>
ExtractedPathOf(p) ==
    packages_dir \o <<"/", p.data.name, "-", p.data.version, "-", p.data.build>>

\* C18: whatever cache operations came before, get_tarball(pkg) returns
\* Some(p) exactly when {pkgs_dir}/{name}-{version}-{build}.tar.bz2 exists,
\* and p is that path; get_extracted_dir(pkg) returns Some exactly when
\* {pkgs_dir}/{name}-{version}-{build} exists, and it is that path.  A
\* tarball that was added or downloaded is there, an unpack that went well
\* leaves the directory.
C18_TarballNamingLaw ==
    /\ got.method = "get_tarball" =>
          got.value = (IF TarballPathOf(got.pkg) \in files THEN Some(TarballPathOf(got.pkg)) ELSE None)
    /\ got.method = "get_extracted_dir" =>
          got.value = (IF ExtractedPathOf(got.pkg) \in files THEN Some(ExtractedPathOf(got.pkg)) ELSE None)
    /\ (got.method = "add_tarball" /\ got.value.tag = "Ok") =>
          (got.value.value = TarballPathOf(got.pkg) /\ TarballPathOf(got.pkg) \in files)
    /\ (got.method \in {"unpack_tarball", "download"} /\ got.value.tag = "Ok") =>
          (TarballPathOf(got.pkg) \in files /\ ExtractedPathOf(got.pkg) \in files)

\* get_tarball has found the tarball of a package whose directory is missing,
\* while the directory of another package exists
C18_Witness ==
    /\ got.method = "get_tarball"
    /\ got.value # None
    /\ ExtractedPathOf(got.pkg) \notin files
    /\ \E p \in CachePackages : p # got.pkg /\ ExtractedPathOf(p) \in files

(***************************************************************************)
(* main.rs: the rewrite of the prefix placeholder in a file that is copied *)
(* into the environment.  A file is a sequence of bytes; a byte is written *)
(* as a string.                                                            *)
(***************************************************************************)
NUL == "NUL"
\* a byte that is no UTF-8 text on its own (as 0xFF): the class [^\0] of a
\* regex::bytes::Regex in its default Unicode mode does not match it
InvalidUtf8 == "xFF"
\* the bytes [0-9A-Za-z_] a capture reference is made of, and its digits
WordBytes == {"0", "a", "_"}
DigitBytes == {"0"}

\* &s[n..] and &s[..n]
SliceFrom(s, n) == SubSeq(s, n + 1, Len(s))
SliceTo(s, n) == SubSeq(s, 1, n)
StartsWith(s, t) == Len(t) <= Len(s) /\ SubSeq(s, 1, Len(t)) = t

\* regex find_cap_ref: the longest run of [0-9A-Za-z_] after the `$`
RECURSIVE WordRun(_)
WordRun(s) == IF s = <<>> \/ Head(s) \notin WordBytes THEN 0 ELSE 1 + WordRun(Tail(s))

\* regex Captures::expand for a replacement given as &[u8], for a pattern
\* without groups whose match is `whole`: `$$` is a `$`, `$` followed by a
\* name of digits is group 0 here (the only digit is 0), `$` followed by
\* another name is a group the pattern lacks and expands to nothing, and a
\* `$` followed by no name stays
RECURSIVE Expand(_, _)
Expand(replacement, whole) ==
    IF replacement = <<>> THEN <<>>
    ELSE IF Head(replacement) # "$"
         THEN <<Head(replacement)>> \o Expand(Tail(replacement), whole)
    ELSE IF Len(replacement) >= 2 /\ replacement[2] = "$"
         THEN <<"$">> \o Expand(SliceFrom(replacement, 2), whole)
    ELSE LET n == WordRun(Tail(replacement))
         IN  IF n = 0
             THEN <<"$">> \o Expand(Tail(replacement), whole)
             ELSE (IF \A i \in 2..(n + 1) : replacement[i] \in DigitBytes THEN whole ELSE <<>>)
                      \o Expand(SliceFrom(replacement, n + 1), whole)

\* Regex::new(&regex::escape(from)).replace_all(hay, to): every occurrence
\* of the literal from, left to right, replaced by the expanded replacement
RECURSIVE ReplaceAll(_, _, _)
ReplaceAll(hay, from, to) ==
    IF hay = <<>> THEN <<>>
    ELSE IF StartsWith(hay, from)
         THEN Expand(to, from) \o ReplaceAll(SliceFrom(hay, Len(from)), from, to)
         ELSE <<Head(hay)>> \o ReplaceAll(Tail(hay), from, to)

\* how many leading bytes of s the class [^\0] matches
RECURSIVE TextRun(_)
TextRun(s) == IF s = <<>> \/ Head(s) \in {NUL, InvalidUtf8} THEN 0 ELSE 1 + TextRun(Tail(s))

\* the length of the match of {escaped from}([^\0]*?)\0 at the start of s,
\* 0 when there is none
MatchLen(s, from) ==
    IF ~StartsWith(s, from) THEN 0
    ELSE LET k == Len(from) + TextRun(SliceFrom(s, Len(from)))
         IN  IF k < Len(s) /\ s[k + 1] = NUL THEN k + 1 ELSE 0

PaddingError == [tag |-> "Panic", message |-> "Padding Error"]

\* a rewrite that cuts a region that grew to its length instead of panicking
RECURSIVE BinaryReplaceTruncates(_, _, _)
BinaryReplaceTruncates(s, from, to) ==
    IF s = <<>> THEN Ok(<<>>)
    ELSE LET m == MatchLen(s, from)
         IN  IF m = 0
             THEN Ok(<<Head(s)>> \o BinaryReplaceTruncates(Tail(s), from, to).value)
             ELSE LET replaced_bytes == ReplaceAll(SliceTo(s, m), from, to)
                  IN  Ok((IF Len(replaced_bytes) > m
                          THEN SliceTo(replaced_bytes, m)
                          ELSE replaced_bytes \o [i \in 1..(m - Len(replaced_bytes)) |-> NUL])
                         \o BinaryReplaceTruncates(SliceFrom(s, m), from, to).value)

\* binary_replace, lines 590-609: the matches of the pattern from left to
\* right, each replaced by what the closure returns; the closure panics when
\* its region grew
RECURSIVE binary_replace(_, _, _)
binary_replace(s, from, to) ==
    IF s = <<>> THEN Ok(<<>>)
    ELSE LET m == MatchLen(s, from)
         IN  IF m = 0
             THEN LET rest == binary_replace(Tail(s), from, to)
                  IN  IF rest.tag = "Ok" THEN Ok(<<Head(s)>> \o rest.value) ELSE rest
             ELSE LET captured_data == SliceTo(s, m)
                      replaced_bytes == ReplaceAll(captured_data, from, to)
                  IN  IF Len(replaced_bytes) > m
                      THEN PaddingError
                      ELSE LET rest == binary_replace(SliceFrom(s, m), from, to)
                           IN  IF rest.tag = "Ok"
                               THEN Ok(replaced_bytes \o [i \in 1..(m - Len(replaced_bytes)) |-> NUL]
                                       \o rest.value)
                               ELSE rest

\* lines 423-433: the rewrite by file_mode
RewriteOf(mode, s, from, to) ==
    IF mode = "Binary" THEN binary_replace(s, from, to) ELSE Ok(ReplaceAll(s, from, to))

MaxPlaceholderLen == 3
MaxChunks == 3

PlaceholderUniverse == <<"/", "a", "/", "a", "/">>
Placeholders == {SliceTo(PlaceholderUniverse, n) : n \in 1..MaxPlaceholderLen}
Replacements == SeqsUpTo({"/", "$", "0"}, MaxPlaceholderLen)
RECURSIVE Flatten(_)
Flatten(ss) == IF ss = <<>> THEN <<>> ELSE Head(ss) \o Flatten(Tail(ss))
\* files made of placeholders, text, NUL and bytes that are no text
FileContents(from) == {Flatten(cs) : cs \in SeqsUpTo({from, <<NUL>>, <<"a">>, <<InvalidUtf8>>}, MaxChunks)}

InitRewrite ==
    /\ InstallIdle
    /\ old_text = <<>>
    /\ new_text = <<>>
    /\ diff = Unset
    /\ diff_info = Unset
    /\ text = <<>>
    /\ recipe = Unset
    /\ conda_recipe = Unset
    /\ conda_adds = <<>>
    /\ pypi_adds = <<>>
    /\ main_pc = "hardlink"
    /\ spec_arg = Unset
    /\ index_channels = {}
    /\ indexes = EmptyMap
    /\ remote = EmptyMap
    /\ files = {}
    /\ resolved = Unset
    /\ got = NoCall
    /\ refetches = 0
    /\ downloads = 0
    /\ unpacks = 0
    /\ env_linked = FALSE
    /\ main_result = Unset
    /\ prefix \in Placeholders
    /\ contents \in FileContents(prefix)
    /\ env_root_prefix \in Replacements
    /\ file_mode \in {"Text", "Binary"}
    /\ to_file \in {None, Some(<<"a">>)}
    /\ file_data = None
    /\ PlanIdle
    /\ EnvIdle
    /\ AuxIdle

RewriteFrame ==
    UNCHANGED <<contents, prefix, env_root_prefix, file_mode, conda_adds, pypi_adds,
                planVars, envVars, auxVars,
                spec_arg, index_channels, indexes, remote, files, resolved, got, refetches,
                downloads, unpacks, env_linked, parseVars, diffVars, installVars>>

\* lines 417-419: if to.exists() { std::fs::remove_file(to)?; }
RemoveFile ==
    /\ main_pc = "hardlink"
    /\ \E out \in {"ok", "io error"} :
          IF to_file = None \/ out = "ok"
          THEN /\ to_file' = None
               /\ main_pc' = "rewrite"
               /\ UNCHANGED main_result
          ELSE /\ MainReturn("failed", Err(<<out>>))
               /\ UNCHANGED to_file
    /\ UNCHANGED file_data
    /\ RewriteFrame

\* lines 421-433: std::fs::read(from)?, then the rewrite of the file's mode
Rewrite ==
    /\ main_pc = "rewrite"
    /\ \E out \in {"ok", "io error"} :
          IF out = "io error"
          THEN MainReturn("failed", Err(<<out>>)) /\ UNCHANGED file_data
          ELSE \E r \in {RewriteOf(file_mode, contents, prefix, env_root_prefix)} :
                  IF r.tag = "Ok"
                  THEN /\ file_data' = Some(r.value)
                       /\ main_pc' = "write"
                       /\ UNCHANGED main_result
                  ELSE /\ MainReturn("panicked", r)
                       /\ UNCHANGED file_data
    /\ UNCHANGED to_file
    /\ RewriteFrame

\* lines 435-437: std::fs::write(to, data)?
WriteFile ==
    /\ main_pc = "write"
    /\ \E out \in {"ok", "io error"} :
          IF out = "ok"
          THEN /\ to_file' = file_data
               /\ main_pc' = "linked"
               /\ UNCHANGED main_result
          ELSE /\ MainReturn("failed", Err(<<out>>))
               /\ UNCHANGED to_file
    /\ UNCHANGED file_data
    /\ RewriteFrame

NextRewrite ==
    \/ RemoveFile
    \/ Rewrite
    \/ WriteFile

SpecRewrite == InitRewrite /\ [][NextRewrite]_vars

\* the positions of s, counted from at + 1, that lie in a match of the pattern
RECURSIVE Matched(_, _, _)
Matched(s, from, at) ==
    IF s = <<>> THEN {}
    ELSE LET m == MatchLen(s, from)
         IN  IF m = 0
             THEN Matched(Tail(s), from, at + 1)
             ELSE ((at + 1)..(at + m)) \cup Matched(SliceFrom(s, m), from, at + m)

\* whether replacing the placeholder makes some matched region longer
RECURSIVE Grows(_, _, _)
Grows(s, from, to) ==
    IF s = <<>> THEN FALSE
    ELSE LET m == MatchLen(s, from)
         IN  IF m = 0
             THEN Grows(Tail(s), from, to)
             ELSE \/ Len(ReplaceAll(SliceTo(s, m), from, to)) > m
                  \/ Grows(SliceFrom(s, m), from, to)

\* the binary rewrite has run on the file
BinaryRewritten == file_mode = "Binary" /\ (file_data # None \/ main_pc = "panicked")

\* C19: with a replacement no longer than the placeholder the binary rewrite
\* yields bytes of the length of the input, with NUL wherever the input has
\* NUL and with the input's bytes outside the matched regions.
C19_Original ==
    (BinaryRewritten /\ Len(env_root_prefix) <= Len(prefix)) =>
        /\ file_data # None
        /\ Len(file_data[1]) = Len(contents)
        /\ \A i \in 1..Len(contents) :
              /\ contents[i] = NUL => file_data[1][i] = NUL
              /\ i \notin Matched(contents, prefix, 0) => file_data[1][i] = contents[i]

C30_Original ==
    (/\ got.method = "get_extracted_dir"
     /\ downloads = 0
     /\ GetTarball(files, resolved) # None) =>
        /\ main_pc # "panicked"
        /\ GetExtractedDir(files, resolved) # None

\* C23: a listing that fails with EnvironmentLocationNotFound is no failure
\* of install(): the old recipe is the empty one, so the diff holds every
\* package of the new recipe as an add and no update or delete, and the
\* environment is removed and created before any package step.  A listing
\* that fails otherwise makes install() return the error with the
\* environment as it was, and nothing runs after that.
C23_EnvNotFoundIsEmpty ==
    /\ [][(pc = "list_env" /\ ~env_exists /\ failures' = failures) =>
            \/ RecipeTryFrom(new_text).tag = "Err" /\ pc' = "failed"
            \/ /\ pc' = "env_remove"
               /\ result' = Unset
               /\ diff'.updates = <<>>
               /\ diff'.deletes = <<>>
               /\ {diff'.adds[i] : i \in DOMAIN diff'.adds}
                     = {RecipeTryFrom(new_text).value.packages[n] :
                           n \in DOMAIN RecipeTryFrom(new_text).value.packages}]_vars
    /\ [][(pc = "list_env" /\ failures' > failures) =>
            /\ pc' = "failed"
            /\ result'.tag = "Err"
            /\ UNCHANGED <<env, env_exists>>]_vars
    /\ [][(pc = "env_remove" /\ pc' # "failed") => pc' = "env_create"]_vars
    /\ [][(pc = "env_create" /\ pc' # "failed") => (env_exists' /\ pc' = "delete_conda")]_vars
    /\ [](pc \in {"delete_conda", "delete_pypi", "install_conda", "pip_bootstrap",
                  "pypi_loop", "finish", "done"} => env_exists)
    /\ [](pc = "failed" => ~ENABLED NextInstall)

\* the listing of a missing environment was taken for the empty recipe: the
\* environment is about to be created and the new recipe's packages are adds
C23_Witness ==
    /\ pc = "env_remove"
    /\ ~env_exists
    /\ ~force_reinstall
    /\ failures = 0
    /\ diff # Unset
    /\ Len(diff.adds) >= 2

\* C28: pip uninstall and pip install run while python and pip are in the
\* environment: when the pip uninstall of the run is due, no conda remove of
\* the run has taken python or pip away, and when a pip install is due, a
\* python or pip that was removed is installed again.
C28_Original ==
    /\ (pc = "delete_pypi" /\ collections.pypi_delete_pkgs # <<>>) =>
          \A n \in {"python", "pip"} : n \notin Range(PkgNames(collections.conda_delete_pkgs))
    /\ (pc = "pypi_loop" /\ pkgs # <<>> /\ failures = 0) =>
          \A n \in {"python", "pip"} :
              n \in Range(PkgNames(collections.conda_delete_pkgs)) => n \in DOMAIN env

(***************************************************************************)
(* action/install.rs under signals.  Only the select loop of the conda     *)
(* install waits for SIGTERM and ctrl-c; what it creates to do so,         *)
(* signal(SignalKind::terminate()) and signal::ctrl_c(), installs handlers *)
(* that stay for the life of the process.  run_conda only waits for its    *)
(* child: a signal that arrives meanwhile ends the process by its default  *)
(* action when no handler is installed, and is swallowed when one is.      *)
(***************************************************************************)
\* whether a child of run_conda is running at the position of install()
RunCondaChild ==
    \/ pc \in {"list_env", "env_remove", "env_create"}
    \/ pc = "delete_conda" /\ collections.conda_delete_pkgs # <<>>
    \/ pc = "delete_pypi" /\ collections.pypi_delete_pkgs # <<>>
    \/ pc = "pip_bootstrap" /\ "pip" \in Range(PkgNames(collections.pypi_install_pkgs))
    \/ pc = "pypi_loop" /\ pkgs # <<>>

\* action/mod.rs run_conda, lines 28-44: process.wait().await while a
\* SIGTERM or a SIGINT is delivered to the process
SignalRunConda ==
    /\ RunCondaChild
    /\ signal_seen = "none"
    /\ \E sig \in {"SIGTERM", "SIGINT"} : signal_seen' = sig
    /\ pc' = IF sig_handlers THEN pc ELSE "killed"
    /\ UNCHANGED <<env_exists, env, force_reinstall, collections, pkgs, current_failed, result,
                   requeues, touched, failures, fault_cap, sig_handlers, loopGhost,
                   parseVars, diffVars, mainVars>>

NextSignal ==
    \/ ListEnv
    \/ EnvRemove
    \/ EnvCreate
    \/ DeleteConda
    \/ DeletePypi
    \/ InstallConda
    \/ PipBootstrap
    \/ PipInstall
    \/ Finish
    \/ SignalRunConda

SpecSignal == InitInstall /\ [][NextSignal]_vars

\* C24: a SIGTERM or SIGINT delivered while a child runs ends install() with
\* the error of that signal, and no step of the plan starts after it.
C24_Original ==
    signal_seen # "none" =>
        /\ pc = "failed"
        /\ result = Err(IF signal_seen = "SIGTERM" THEN "receive sigterm" ELSE "receive ctrl c")

(***************************************************************************)
(* main.rs install(): the channels of the index and the loops over the     *)
(* plan (lines 133-144 and 181-315).                                       *)
(***************************************************************************)
NumMainNames == 2

MainNameUniverse == <<"pip", "numpy", "six">>
MainNames ==
    {MainNameUniverse[i] : i \in 1..(IF NumMainNames < Len(MainNameUniverse)
                                     THEN NumMainNames ELSE Len(MainNameUniverse))}

OldMainVariants == {<<"1", "b0">>, <<"1", "pypi_0", "pypi">>}
NewMainVariants == {<<"1", "b0">>, <<"2", "b0">>, <<"2", "b0", "conda-forge">>,
                    <<"2", "pypi_0", "pypi">>}

\* conda_info.default_channels
DefaultChannels == {"defaults"}

\* the channels a repodata may be fetched from
ChannelUniverse == DefaultChannels \cup {"conda-forge"}

\* the channel a native spec is published in
HomeChannel(sp) == IF sp.channel = None THEN "defaults" ELSE sp.channel[1]

\* what the channels serve when they carry the native packages of specs
Serving(specs) ==
    [c \in ChannelUniverse |->
        {tarball_name(specs[n].name, specs[n].version, specs[n].build) :
            n \in {m \in DOMAIN specs : ~IsPypiSpec(specs[m]) /\ HomeChannel(specs[m]) = c}}]

\* the union of what two sets of channels serve
ServingBoth(a, b) == [c \in ChannelUniverse |-> a[c] \cup b[c]]

InitMain ==
    /\ InstallIdle
    /\ LinkIdle
    /\ PlanIdle
    /\ EnvIdle
    /\ AuxIdle
    /\ main_pc = "channels"
    /\ conda_adds = <<>>
    /\ pypi_adds = <<>>
    /\ old_text \in {Listing(f) : f \in UNION {[S -> OldMainVariants] : S \in SUBSET MainNames}}
    /\ new_text \in {Listing(f) : f \in UNION {[S -> NewMainVariants] : S \in SUBSET MainNames}}
    /\ diff = Unset
    /\ diff_info = Unset
    /\ text = <<>>
    /\ recipe = Unset
    /\ conda_recipe = Unset
    /\ spec_arg = Unset
    /\ index_channels = {}
    /\ indexes = EmptyMap
    /\ remote \in {Serving(NewSpecs), ServingBoth(Serving(OldSpecs), Serving(NewSpecs))}
    /\ files = {}
    /\ resolved = Unset
    /\ got = NoCall
    /\ refetches = 0
    /\ downloads = 0
    /\ unpacks = 0
    /\ env_linked = FALSE
    /\ main_result = Unset

\* lines 133-140: the channels the specs of diff.conda.add cite
ChannelsOf(adds) == {adds[i].channel[1] : i \in {j \in 1..Len(adds) : adds[j].channel # None}}

\* what install() leaves alone while it runs the plan
PlanFrame ==
    UNCHANGED <<spec_arg, remote, files, resolved, got, downloads, unpacks, env_linked,
                linkVars, envVars, auxVars, parseVars, diffVars, installVars>>

\* lines 133-144: channels of the adds, extended by the default channels;
\* CondaIndex::try_new(&conda_info, &conda_cache, &channels)?
BuildChannels ==
    /\ main_pc = "channels"
    /\ diff_info # Unset
    /\ index_channels' = ChannelsOf(diff_info.conda.add) \cup DefaultChannels
    /\ \E out \in {"ok", "fail to fetch"} :
          IF out = "ok"
          THEN /\ indexes' = [c \in index_channels' |-> remote[c]]
               /\ main_pc' = "sort_adds"
               /\ UNCHANGED main_result
          ELSE /\ MainReturn("failed", Err(<<out>>))
               /\ UNCHANGED indexes
    /\ UNCHANGED <<conda_adds, pypi_adds, refetches, planVars>>
    /\ PlanFrame

\* one call of the plan: what was called, on which spec, during which step,
\* and whether it returned Ok
Call(name, sp, step, ok) == [call |-> name, spec |-> sp, step |-> step, ok |-> ok]

\* install_conda_pkg, lines 373-386: whether the spec is found, at first or
\* after update_indexes(channels)
Resolves(idx, chans, served, sp) ==
    GetBySpec(idx, sp) # {} \/ GetBySpec(UpdateIndexes(idx, chans, served), sp) # {}

\* the index after install_conda_pkg looked the spec up
IndexAfterLookup(idx, chans, served, sp) ==
    IF GetBySpec(idx, sp) # {} THEN idx ELSE UpdateIndexes(idx, chans, served)

\* how install_conda_pkg can end: not found in the indexes; an error of the
\* refetch, of the download or of a file operation; a panic; Ok
InstallCondaPkgOutcomes(idx, chans, served, sp) ==
    IF Resolves(idx, chans, served, sp) THEN {"ok", "err", "panic"} ELSE {"not found"}

\* how uninstall_conda_pkg can end: get_by_spec(spec).unwrap() panics on a
\* spec the indexes do not list
UninstallCondaPkgOutcomes(idx, sp) ==
    IF GetBySpec(idx, sp) = {} THEN {"panic"} ELSE {"ok", "err"}

\* install_pypi_pkg and uninstall_pypi_pkg: Err on a spawn error or a
\* non-zero exit of pip
PipOutcomes == {"ok", "err"}

\* the state of install() after a call that did not return Ok
PlanStops(out) ==
    IF out = "panic"
    THEN MainReturn("panicked", [tag |-> "Panic", message |-> <<"unwrap on None">>])
    ELSE MainReturn("failed", Err(<<out>>))

\* lines 189-203: one iteration of the loop over conda_adds
InstallCondaAdd ==
    /\ main_pc = "install_adds"
    /\ conda_adds # <<>>
    /\ \E sp \in {Head(conda_adds)} :
       \E out \in InstallCondaPkgOutcomes(indexes, index_channels, remote, sp) :
          /\ calls' = Append(calls, Call("install_conda_pkg", sp, "add", out = "ok"))
          /\ indexes' = IndexAfterLookup(indexes, index_channels, remote, sp)
          /\ refetches' = refetches + (IF GetBySpec(indexes, sp) = {} THEN 1 ELSE 0)
          /\ IF out = "ok"
             THEN conda_adds' = Tail(conda_adds) /\ UNCHANGED <<main_pc, main_result>>
             ELSE PlanStops(out) /\ UNCHANGED conda_adds
    /\ UNCHANGED <<index_channels, pypi_adds, steps_done>>
    /\ PlanFrame

\* lines 214-221: one iteration of the loop over pypi_adds; for pip,
\* conda.execute(["install", "-n", env, "--no-deps", "pip"])? first, which
\* is Err only when conda cannot be spawned
InstallPypiAdd ==
    /\ main_pc = "install_adds"
    /\ conda_adds = <<>>
    /\ pypi_adds # <<>>
    /\ \E sp \in {Head(pypi_adds)} :
       \E boot \in IF sp.name = "pip" THEN {"ok", "exit nonzero", "spawn error"} ELSE {"none"} :
       \E out \in PipOutcomes :
          LET booted == IF boot = "none" THEN calls
                        ELSE Append(calls, Call("conda install pip", sp, "add", boot = "ok"))
          IN  IF boot = "spawn error"
              THEN /\ calls' = booted
                   /\ PlanStops(boot)
                   /\ UNCHANGED pypi_adds
              ELSE /\ calls' = Append(booted, Call("install_pypi_pkg", sp, "add", out = "ok"))
                   /\ IF out = "ok"
                      THEN pypi_adds' = Tail(pypi_adds) /\ UNCHANGED <<main_pc, main_result>>
                      ELSE PlanStops(out) /\ UNCHANGED pypi_adds
    /\ UNCHANGED <<index_channels, indexes, refetches, conda_adds, steps_done>>
    /\ PlanFrame

\* the adds are installed
AddsDone == main_pc = "install_adds" /\ conda_adds = <<>> /\ pypi_adds = <<>>

\* the number of steps after which each loop of steps 4 and 5 is through
CondaUpdatesEnd == Len(diff_info.conda.update)
PypiUpdatesEnd  == CondaUpdatesEnd + Len(diff_info.pypi.update)
CondaDeletesEnd == PypiUpdatesEnd + Len(diff_info.conda.delete)
PypiDeletesEnd  == CondaDeletesEnd + Len(diff_info.pypi.delete)

\* the calls and the state after a pair of calls: the second one is made
\* only when the first returned Ok
AfterCalls(first, first_out, second, second_out) ==
    IF first_out # "ok"
    THEN /\ calls' = Append(calls, first)
         /\ PlanStops(first_out)
         /\ UNCHANGED steps_done
    ELSE /\ calls' = Append(Append(calls, first), second)
         /\ IF second_out = "ok"
            THEN steps_done' = steps_done + 1 /\ UNCHANGED <<main_pc, main_result>>
            ELSE PlanStops(second_out) /\ UNCHANGED steps_done

\* the calls and the state after a single call
AfterCall(only, out) ==
    /\ calls' = Append(calls, only)
    /\ IF out = "ok"
       THEN steps_done' = steps_done + 1 /\ UNCHANGED <<main_pc, main_result>>
       ELSE PlanStops(out) /\ UNCHANGED steps_done

\* lines 240-262: one iteration of the loop over diff.conda.update
UpdateConda ==
    /\ AddsDone
    /\ steps_done < CondaUpdatesEnd
    /\ \E update \in {diff_info.conda.update[steps_done + 1]} :
          IF update.to.channel = Some("pypi_0") \/ update.to.name = "pip"
          THEN /\ \E out \in PipOutcomes :
                     AfterCall(Call("install_pypi_pkg", update.to, "update", out = "ok"), out)
               /\ UNCHANGED <<indexes, refetches>>
          ELSE \E un \in UninstallCondaPkgOutcomes(indexes, update.from) :
               \E out \in InstallCondaPkgOutcomes(indexes, index_channels, remote, update.to) :
                  /\ AfterCalls(Call("uninstall_conda_pkg", update.from, "update", un = "ok"), un,
                                Call("install_conda_pkg", update.to, "update", out = "ok"), out)
                  /\ IF un = "ok"
                     THEN /\ indexes' = IndexAfterLookup(indexes, index_channels, remote, update.to)
                          /\ refetches' = refetches +
                                (IF GetBySpec(indexes, update.to) = {} THEN 1 ELSE 0)
                     ELSE UNCHANGED <<indexes, refetches>>
    /\ UNCHANGED <<index_channels, conda_adds, pypi_adds>>
    /\ PlanFrame

\* lines 263-283: one iteration of the loop over diff.pypi.update
UpdatePypi ==
    /\ AddsDone
    /\ steps_done >= CondaUpdatesEnd
    /\ steps_done < PypiUpdatesEnd
    /\ \E update \in {diff_info.pypi.update[steps_done - CondaUpdatesEnd + 1]} :
       \E un \in PipOutcomes :
          IF update.to.channel # Some("pypi_0")
          THEN \E out \in InstallCondaPkgOutcomes(indexes, index_channels, remote, update.to) :
                  /\ AfterCalls(Call("uninstall_pypi_pkg", update.from, "update", un = "ok"), un,
                                Call("install_conda_pkg", update.to, "update", out = "ok"), out)
                  /\ IF un = "ok"
                     THEN /\ indexes' = IndexAfterLookup(indexes, index_channels, remote, update.to)
                          /\ refetches' = refetches +
                                (IF GetBySpec(indexes, update.to) = {} THEN 1 ELSE 0)
                     ELSE UNCHANGED <<indexes, refetches>>
          ELSE /\ \E out \in PipOutcomes :
                     AfterCalls(Call("uninstall_pypi_pkg", update.from, "update", un = "ok"), un,
                                Call("install_pypi_pkg", update.to, "update", out = "ok"), out)
               /\ UNCHANGED <<indexes, refetches>>
    /\ UNCHANGED <<index_channels, conda_adds, pypi_adds>>
    /\ PlanFrame

\* lines 303-309: one iteration of the loop over diff.conda.delete
DeleteCondaPkg ==
    /\ AddsDone
    /\ steps_done >= PypiUpdatesEnd
    /\ steps_done < CondaDeletesEnd
    /\ \E sp \in {diff_info.conda.delete[steps_done - PypiUpdatesEnd + 1]} :
       \E out \in UninstallCondaPkgOutcomes(indexes, sp) :
          AfterCall(Call("uninstall_conda_pkg", sp, "delete", out = "ok"), out)
    /\ UNCHANGED <<index_channels, indexes, refetches, conda_adds, pypi_adds>>
    /\ PlanFrame

\* lines 310-314: one iteration of the loop over diff.pypi.delete
DeletePypiPkg ==
    /\ AddsDone
    /\ steps_done >= CondaDeletesEnd
    /\ steps_done < PypiDeletesEnd
    /\ \E sp \in {diff_info.pypi.delete[steps_done - CondaDeletesEnd + 1]} :
       \E out \in PipOutcomes :
          AfterCall(Call("uninstall_pypi_pkg", sp, "delete", out = "ok"), out)
    /\ UNCHANGED <<index_channels, indexes, refetches, conda_adds, pypi_adds>>
    /\ PlanFrame

\* line 318: Ok(())
MainDone ==
    /\ AddsDone
    /\ steps_done = PypiDeletesEnd
    /\ MainReturn("done", Ok(<<>>))
    /\ UNCHANGED <<index_channels, indexes, refetches, conda_adds, pypi_adds, planVars>>
    /\ PlanFrame

NextMain ==
    \/ CondaDiff
    \/ BuildChannels
    \/ SortAdds
    \/ InstallCondaAdd
    \/ InstallPypiAdd
    \/ UpdateConda
    \/ UpdatePypi
    \/ DeleteCondaPkg
    \/ DeletePypiPkg
    \/ MainDone

SpecMain == InitMain /\ [][NextMain]_vars

(***************************************************************************)
(* Claims about the plan of main.rs.                                       *)
(***************************************************************************)
InstallCalls   == {"install_conda_pkg", "install_pypi_pkg"}
UninstallCalls == {"uninstall_conda_pkg", "uninstall_pypi_pkg"}

\* the native specs the plan installs: the native adds and the native
\* targets of the updates
NativeInstalls ==
    LET ups == diff_info.conda.update \o diff_info.pypi.update
    IN  Range(diff_info.conda.add) \cup
        {ups[i].to : i \in {j \in 1..Len(ups) : ~IsPypiSpec(ups[j].to)}}

\* C25: for every update of the plan the uninstall of the old spec has
\* completed before the install of the new spec of the same name starts.
C25_Original ==
    \A i \in 1..Len(calls) :
        (calls[i].step = "update" /\ calls[i].call \in InstallCalls) =>
            \E j \in 1..(i - 1) :
                /\ calls[j].step = "update"
                /\ calls[j].call \in UninstallCalls
                /\ calls[j].spec.name = calls[i].spec.name
                /\ calls[j].ok

\* C26: in an update the old spec is uninstalled by pip iff it is a pypi
\* spec, and the new spec is installed by pip iff it is a pypi spec or is
\* named pip; a pypi spec is never handed to install_conda_pkg.
C26_Original ==
    \A i \in 1..Len(calls) :
        calls[i].step = "update" =>
            /\ calls[i].call \in UninstallCalls =>
                  (calls[i].call = "uninstall_pypi_pkg" <=> IsPypiSpec(calls[i].spec))
            /\ calls[i].call \in InstallCalls =>
                  (calls[i].call = "install_pypi_pkg" <=>
                      (IsPypiSpec(calls[i].spec) \/ calls[i].spec.name = "pip"))

\* C27: when pip is among the pypi packages to add, every pip install of
\* the adds comes after a conda install of pip that succeeded.
C27_Original ==
    \A i \in 1..Len(calls) :
        (/\ calls[i].call = "install_pypi_pkg"
         /\ calls[i].step = "add"
         /\ \E k \in 1..Len(diff_info.pypi.add) : diff_info.pypi.add[k].name = "pip") =>
            \E j \in 1..(i - 1) : calls[j].call = "conda install pip" /\ calls[j].ok

\* C29: the channels the index is built for hold the default channels and
\* the channel of every native spec the plan installs, as an add or as the
\* target of an update.
C29_Original ==
    (diff_info # Unset /\ index_channels # {}) =>
        /\ DefaultChannels \subseteq index_channels
        /\ \A sp \in NativeInstalls : sp.channel # None => sp.channel[1] \in index_channels

(***************************************************************************)
(* main.rs install_conda_pkg (lines 397-496) and uninstall_conda_pkg       *)
(* (lines 498-533): one package linked into, and unlinked from, the        *)
(* environment directory.  Paths are relative to env_root_dir.             *)
(***************************************************************************)
MaxPaths == 2
MaxSymlinkHops == 2

\* what a path of the environment holds
FsFile == [kind |-> "file", link |-> <<>>]
FsDir == [kind |-> "dir", link |-> <<>>]
FsSymlink(original) == [kind |-> "symlink", link |-> original]

\* Path::parent
Parent(path) ==
    IF Len(FileName(path)) >= Len(path) THEN <<>>
    ELSE SubSeq(path, 1, Len(path) - Len(FileName(path)) - 1)

\* the directories above a path, the environment root left out
RECURSIVE Ancestors(_)
Ancestors(path) ==
    IF Parent(path) = <<>> THEN {} ELSE {Parent(path)} \cup Ancestors(Parent(path))

\* the file system with path holding v
FsPut(fs, path, v) == [q \in (DOMAIN fs) \cup {path} |-> IF q = path THEN v ELSE fs[q]]

\* the file system without path
FsRemove(fs, path) == [q \in (DOMAIN fs) \ {path} |-> fs[q]]

\* std::fs::create_dir_all
CreateDirAll(fs, dir) ==
    [q \in (DOMAIN fs) \cup {dir} \cup Ancestors(dir) |-> IF q \in DOMAIN fs THEN fs[q] ELSE FsDir]

\* where a symbolic link at path points
LinkTarget(fs, path) == Join(Parent(path), fs[path].link)

\* Path::exists: symbolic links are followed, a dangling one does not exist
RECURSIVE Exists(_, _, _)
Exists(fs, path, hops) ==
    \/ path = <<>>
    \/ /\ path \in DOMAIN fs
       /\ fs[path].kind = "symlink" =>
             (hops > 0 /\ Exists(fs, LinkTarget(fs, path), hops - 1))

\* parent.read_dir()?.next().is_none()
IsEmptyDir(fs, dir) == \A q \in DOMAIN fs : Parent(q) # dir

\* an entry of paths_data.paths; link is what read_link gives for a SoftLink
PathEntry(path, path_type, link) == [path |-> path, path_type |-> path_type, link |-> link]

EntryUniverse == {
    PathEntry(<<"lib", "/", "liba.so.1">>, "HardLink", <<>>),
    PathEntry(<<"lib", "/", "liba.so">>, "SoftLink", <<"liba.so.1">>),
    PathEntry(<<"lib", "/", "gone.so">>, "SoftLink", <<"missing">>),
    PathEntry(<<"share", "/", "doc">>, "Directory", <<>>),
    PathEntry(<<"site-packages", "/", "m.py">>, "HardLink", <<>>)
}

\* the lists of path entries a package can have
PathLists == UNION {Perms(S) : S \in {T \in SUBSET EntryUniverse : Cardinality(T) <= MaxPaths}}

\* the environments a package is linked into: a fresh one, one that holds
\* python and a file of another package, one with a dangling link left over
Environments == {
    EmptyMap,
    [q \in {<<"bin">>, <<"bin", "/", "python3.9">>, <<"lib">>, <<"lib", "/", "other">>} |->
        IF q \in {<<"bin">>, <<"lib">>} THEN FsDir ELSE FsFile],
    [q \in {<<"lib">>, <<"lib", "/", "liba.so">>} |->
        IF q = <<"lib">> THEN FsDir ELSE FsSymlink(<<"liba.so.0">>)]
}

InitLink ==
    /\ InstallIdle
    /\ LinkIdle
    /\ PlanIdle
    /\ AuxIdle
    /\ old_text = <<>>
    /\ new_text = <<>>
    /\ diff = Unset
    /\ diff_info = Unset
    /\ text = <<>>
    /\ recipe = Unset
    /\ conda_recipe = Unset
    /\ conda_adds = <<>>
    /\ pypi_adds = <<>>
    /\ spec_arg = Unset
    /\ index_channels = {}
    /\ indexes = EmptyMap
    /\ remote = EmptyMap
    /\ files = {}
    /\ resolved = Unset
    /\ got = NoCall
    /\ refetches = 0
    /\ downloads = 0
    /\ unpacks = 0
    /\ env_linked = FALSE
    /\ main_result = Unset
    /\ main_pc = "link_paths"
    /\ pkg_paths \in PathLists
    /\ pkg_noarch \in BOOLEAN
    /\ python_version \in {None, Some("3.9")}
    /\ entry_points \in {<<>>, <<"cli">>}
    /\ env_fs \in Environments
    /\ meta_json = None
    /\ target_files = <<>>
    /\ link_i = 0

\* what linking and unlinking a package leaves alone
LinkFrame ==
    UNCHANGED <<spec_arg, index_channels, indexes, remote, files, resolved, got, refetches,
                downloads, unpacks, env_linked, conda_adds, pypi_adds, linkVars, planVars,
                repoVars, treeVars, childVars, parseVars, diffVars, installVars>>

\* lines 399-405: whether the path is relocated under lib/python{X.Y}
Relocated(path, noarch) == noarch /\ StartsWith(path, <<"site-packages", "/">>)

\* lines 399-405: target_path, python_version being Some(version)
TargetPath(path, noarch, version) ==
    IF Relocated(path, noarch) THEN Join(<<"lib", "/", "python", version>>, path) ELSE path

\* lines 416-440, PathType::HardLink: remove_file(to)? when to.exists(), then
\* the file written or hard-linked; written through a link that dangles
HardLinkOutcomes(fs, path) ==
    LET removes == Exists(fs, path, MaxSymlinkHops)
        cleared == IF removes /\ fs[path].kind # "dir" THEN FsRemove(fs, path) ELSE fs
    IN  IF removes /\ fs[path].kind = "dir"
        THEN {[result |-> "err", fs |-> fs]}
        ELSE {[result |-> "err", fs |-> fs], [result |-> "err", fs |-> cleared],
              [result |-> "panic", fs |-> cleared]} \cup
             (IF path \in DOMAIN cleared
              THEN {[result |-> "ok", fs |-> FsPut(cleared, LinkTarget(cleared, path), FsFile)]}
              ELSE {[result |-> "ok", fs |-> FsPut(cleared, path, FsFile)]})

\* lines 441-448, PathType::SoftLink: read_link(from)?, remove_file(&link)?
\* when link.exists(), symlink(&original, &link)?
SoftLinkOutcomes(fs, path, original) ==
    LET removes == Exists(fs, path, MaxSymlinkHops)
        cleared == IF removes /\ fs[path].kind # "dir" THEN FsRemove(fs, path) ELSE fs
    IN  IF removes /\ fs[path].kind = "dir"
        THEN {[result |-> "err", fs |-> fs]}
        ELSE {[result |-> "err", fs |-> fs], [result |-> "err", fs |-> cleared]} \cup
             (IF path \in DOMAIN cleared
              THEN {}
              ELSE {[result |-> "ok", fs |-> FsPut(cleared, path, FsSymlink(original))]})

\* lines 449-451, PathType::Directory: create_dir_all(to)?
DirectoryOutcomes(fs, path) ==
    IF path \in DOMAIN fs /\ fs[path].kind # "dir"
    THEN {[result |-> "err", fs |-> fs]}
    ELSE {[result |-> "err", fs |-> fs], [result |-> "ok", fs |-> CreateDirAll(fs, path)]}

\* lines 415-452: match file.path_type
LinkOutcomes(fs, entry, path) ==
    IF entry.path_type = "HardLink" THEN HardLinkOutcomes(fs, path)
    ELSE IF entry.path_type = "SoftLink" THEN SoftLinkOutcomes(fs, path, entry.link)
    ELSE DirectoryOutcomes(fs, path)

\* return Err(e) of install_conda_pkg or uninstall_conda_pkg, or its panic
LinkStops(res, failed, panicked) ==
    IF res = "panic"
    THEN MainReturn(panicked, [tag |-> "Panic", message |-> <<"panicked">>])
    ELSE MainReturn(failed, Err(<<res>>))

\* the loop over the paths going on whatever a file operation returned
LinkErrorsIgnored(res) ==
    /\ link_i' = link_i + 1
    /\ UNCHANGED <<main_pc, main_result>>

\* the ? after each file operation of the loop over the paths
AfterLink(res) ==
    IF res = "ok"
    THEN /\ link_i' = link_i + 1
         /\ UNCHANGED <<main_pc, main_result>>
    ELSE /\ LinkStops(res, "failed", "panicked")
         /\ UNCHANGED link_i

\* line 413: the directory of env_root_dir the parent of the target is
ParentDir(path) ==
    IF Parent(path) = <<>> THEN <<"{env_root}">> ELSE Join(<<"{env_root}">>, Parent(path))

\* lines 398-453: one iteration of the loop over prefix_record.paths(); the
\* working directory becomes the parent of the target (line 413) unless
\* set_current_dir fails
LinkPath ==
    /\ main_pc = "link_paths"
    /\ link_i < Len(pkg_paths)
    /\ \E entry \in {pkg_paths[link_i + 1]} :
          IF Relocated(entry.path, pkg_noarch) /\ python_version = None
          THEN /\ LinkStops("panic", "failed", "panicked")
               /\ UNCHANGED <<env_fs, target_files, link_i, cwd>>
          ELSE \E path \in {TargetPath(entry.path, pkg_noarch, python_version[1])} :
                  \/ \E out \in LinkOutcomes(CreateDirAll(env_fs, Parent(path)), entry, path) :
                        /\ target_files' = Append(target_files, path)
                        /\ env_fs' = out.fs
                        /\ cwd' = ParentDir(path)
                        /\ AfterLink(out.result)
                  \/ /\ target_files' = Append(target_files, path)
                     /\ env_fs' = CreateDirAll(env_fs, Parent(path))
                     /\ UNCHANGED cwd
                     /\ AfterLink("err")
    /\ UNCHANGED <<pkg_paths, pkg_noarch, python_version, entry_points, meta_json>>
    /\ LinkFrame

\* line 474: script_path of an entry point, as target_files records it
ScriptFile(cli) == Join(<<"{env_root}">>, <<"bin", "/", cli>>)

\* PathBuf::join of env_root_dir and a recorded file: an absolute file
\* replaces the directory
UnderEnvRoot(file) ==
    IF StartsWith(file, <<"{env_root}", "/">>) THEN SliceFrom(file, 2) ELSE file

\* lines 455-478: the scripts of the entry points; the first k are written
WriteEntryPoints ==
    /\ main_pc = "link_paths"
    /\ link_i = Len(pkg_paths)
    /\ IF entry_points # <<>> /\ python_version = None
       THEN /\ LinkStops("panic", "failed", "panicked")
            /\ UNCHANGED <<env_fs, target_files>>
       ELSE \E k \in 0..Len(entry_points) :
               /\ k > 0 => <<"bin">> \in DOMAIN env_fs
               /\ target_files' = target_files \o [i \in 1..k |-> ScriptFile(entry_points[i])]
               /\ env_fs' = [q \in (DOMAIN env_fs) \cup {<<"bin", "/", entry_points[i]>> : i \in 1..k}
                                |-> IF q \in DOMAIN env_fs THEN env_fs[q] ELSE FsFile]
               /\ IF k = Len(entry_points)
                  THEN main_pc' = "write_meta" /\ UNCHANGED main_result
                  ELSE LinkStops("err", "failed", "panicked")
    /\ UNCHANGED <<pkg_paths, pkg_noarch, python_version, entry_points, meta_json, link_i, cwd>>
    /\ LinkFrame

\* lines 480-495: prefix_record.files = target_files, the working
\* directory set back to the one found at line 394, the record written to
\* conda-meta/{name}-{version}-{build}.json
WriteMeta ==
    /\ main_pc = "write_meta"
    /\ \E out \in {"ok", "err"} :
          IF out = "ok"
          THEN /\ meta_json' = Some(target_files)
               /\ cwd' = StartDir
               /\ MainReturn("installed", Ok(<<>>))
          ELSE /\ LinkStops(out, "failed", "panicked")
               /\ cwd' \in {cwd, StartDir}
               /\ UNCHANGED meta_json
    /\ UNCHANGED <<pkg_paths, pkg_noarch, python_version, entry_points, env_fs, target_files,
                   link_i>>
    /\ LinkFrame

\* the files pip uninstall can take away: none, or those of the package
PipUninstallEffects(fs, recorded) ==
    {fs, [q \in (DOMAIN fs) \ {UnderEnvRoot(recorded[i]) : i \in 1..Len(recorded)} |-> fs[q]]}

\* lines 504-507: get_by_spec(spec).unwrap(), try_get_prefix_record(&pkg)?,
\* and uninstall_pypi_pkg for a noarch python package
StartUninstall ==
    /\ main_pc = "installed"
    /\ link_i' = 0
    /\ \E out \in {"ok", "err", "panic"} :
          IF out # "ok"
          THEN /\ LinkStops(out, "uninstall_failed", "uninstall_panicked")
               /\ UNCHANGED env_fs
          ELSE IF pkg_noarch
          THEN \E pip \in PipOutcomes :
                  IF pip = "ok"
                  THEN /\ env_fs' \in PipUninstallEffects(env_fs, target_files)
                       /\ main_pc' = "remove_meta"
                       /\ main_result' = Unset
                  ELSE /\ LinkStops(pip, "uninstall_failed", "uninstall_panicked")
                       /\ UNCHANGED env_fs
          ELSE /\ main_pc' = "unlink_files"
               /\ main_result' = Unset
               /\ UNCHANGED env_fs
    /\ UNCHANGED <<pkg_paths, pkg_noarch, python_version, entry_points, meta_json, target_files,
                   cwd>>
    /\ LinkFrame

\* PrefixRecord.files of the record of the cache: the paths of paths.json
RecordFiles(entries) == [i \in 1..Len(entries) |-> entries[i].path]

\* lines 516-520: remove_dir(parent)? when the parent has become empty
WithoutEmptyParent(fs, path) ==
    IF Parent(path) # <<>> /\ IsEmptyDir(fs, Parent(path)) THEN FsRemove(fs, Parent(path)) ELSE fs

\* lines 509-522: one iteration of the loop over prefix_record.files
UnlinkFile ==
    /\ main_pc = "unlink_files"
    /\ link_i < Len(RecordFiles(pkg_paths))
    /\ \E path \in {UnderEnvRoot(RecordFiles(pkg_paths)[link_i + 1])} :
          IF ~Exists(env_fs, path, MaxSymlinkHops)
          THEN /\ link_i' = link_i + 1
               /\ UNCHANGED <<env_fs, main_pc, main_result>>
          ELSE IF env_fs[path].kind = "dir"
          THEN /\ LinkStops("err", "uninstall_failed", "uninstall_panicked")
               /\ UNCHANGED <<env_fs, link_i>>
          ELSE \E out \in {"ok", "err"} :
                  IF out = "ok"
                  THEN /\ env_fs' = WithoutEmptyParent(FsRemove(env_fs, path), path)
                       /\ link_i' = link_i + 1
                       /\ UNCHANGED <<main_pc, main_result>>
                  ELSE /\ LinkStops(out, "uninstall_failed", "uninstall_panicked")
                       /\ env_fs' \in {env_fs, FsRemove(env_fs, path)}
                       /\ UNCHANGED link_i
    /\ UNCHANGED <<pkg_paths, pkg_noarch, python_version, entry_points, meta_json, target_files,
                   cwd>>
    /\ LinkFrame

\* lines 524-532: the conda-meta file removed when it exists
RemoveMeta ==
    /\ \/ main_pc = "remove_meta"
       \/ main_pc = "unlink_files" /\ link_i = Len(RecordFiles(pkg_paths))
    /\ \E out \in {"ok", "err"} :
          IF out = "ok" \/ meta_json = None
          THEN /\ meta_json' = None
               /\ MainReturn("uninstalled", Ok(<<>>))
          ELSE /\ LinkStops(out, "uninstall_failed", "uninstall_panicked")
               /\ UNCHANGED meta_json
    /\ UNCHANGED <<pkg_paths, pkg_noarch, python_version, entry_points, env_fs, target_files,
                   link_i, cwd>>
    /\ LinkFrame

NextLink ==
    \/ LinkPath
    \/ WriteEntryPoints
    \/ WriteMeta
    \/ StartUninstall
    \/ UnlinkFile
    \/ RemoveMeta

SpecLink == InitLink /\ [][NextLink]_vars

(***************************************************************************)
(* Claims about linking and unlinking a package.                           *)
(***************************************************************************)
\* the recorded file is in the environment, as a file, a link or a directory
Present(fs, file) == UnderEnvRoot(file) \in DOMAIN fs

\* every recorded file is in the environment
AllLinked(fs, recorded) == \A i \in 1..Len(recorded) : Present(fs, recorded[i])

\* install_conda_pkg is running, or has ended without Ok
Installing == main_pc \in {"link_paths", "write_meta", "failed", "panicked"}

\* C21: install_conda_pkg writes the conda-meta file of a package as its
\* last step: while it runs, and after it failed or was stopped part-way,
\* the file is absent; once it is written it lists one target path for each
\* path entry and each entry point, and every one of them is in the
\* environment.
C21_MetaWrittenLast ==
    /\ Installing => meta_json = None
    /\ main_pc = "installed" =>
          /\ meta_json = Some(target_files)
          /\ Len(target_files) = Len(pkg_paths) + Len(entry_points)
          /\ AllLinked(env_fs, target_files)

\* a package of several paths and an entry point is installed
C21_Witness ==
    /\ main_pc = "installed"
    /\ meta_json # None
    /\ Len(pkg_paths) >= 2
    /\ entry_points # <<>>

\* C21 as stated: in every state of the environment a conda-meta file
\* implies that all the files it lists are linked.
C21_Original == meta_json # None => AllLinked(env_fs, meta_json[1])

\* C22: after a native package was installed and uninstalled, none of the
\* paths the install recorded is left, and the conda-meta file is gone.
C22_Original ==
    (main_pc = "uninstalled" /\ ~pkg_noarch) =>
        /\ meta_json = None
        /\ \A i \in 1..Len(target_files) : ~Present(env_fs, target_files[i])

(***************************************************************************)
(* conda/index.rs: CondaIndex::try_new, update_indexes and the repodata    *)
(* files of the cache directory, per (channel, subdir).                    *)
(***************************************************************************)
MaxUpdates == 2

\* info.subdirs, in the order of the configuration
Subdirs == <<"linux-64", "noarch">>

\* the channels an index is constructed for
RepoChannels == {"defaults", "conda-forge"}

\* the (channel, subdir) pairs in the order the two nested loops visit them
RECURSIVE Pairs(_)
Pairs(chans) ==
    IF chans = <<>> THEN <<>>
    ELSE [i \in 1..Len(Subdirs) |-> <<Head(chans), Subdirs[i]>>] \o Pairs(Tail(chans))

\* the running state of a call: the files, the loaded buckets, the requests
\* made, and whether no error was returned yet
RepoState(disk, mem, log, ok) == [disk |-> disk, mem |-> mem, log |-> log, ok |-> ok]

\* update_cached_indexes over the pairs left: each pair is requested, then
\* written over its cache file; the request numbered fault of the call fails
RECURSIVE UpdateCachedIndexes(_, _, _)
UpdateCachedIndexes(st, pairs, fault) ==
    IF pairs = <<>> \/ ~st.ok THEN st
    ELSE LET requested == [st EXCEPT !.log = Append(@, Head(pairs))]
         IN  IF Len(requested.log) = fault
             THEN [requested EXCEPT !.ok = FALSE]
             ELSE UpdateCachedIndexes(
                      [requested EXCEPT !.disk = MapInsert(@, Head(pairs), "fresh")],
                      Tail(pairs), fault)

\* load_cached_index and indexes.entry(channel).insert(subdir, sub_indexes)
LoadCachedIndex(st, pair) == [st EXCEPT !.mem = MapInsert(@, pair, st.disk[pair])]

\* CondaIndex::try_new, the two nested loops over the pairs left
RECURSIVE TryNewLoop(_, _, _)
TryNewLoop(st, pairs, fault) ==
    IF pairs = <<>> \/ ~st.ok THEN st
    ELSE LET pair    == Head(pairs)
             ensured == IF pair \in DOMAIN st.disk THEN st
                        ELSE UpdateCachedIndexes(st, Pairs(<<pair[1]>>), fault)
         IN  IF ~ensured.ok THEN ensured
             ELSE TryNewLoop(LoadCachedIndex(ensured, pair), Tail(pairs), fault)

\* the loop of update_indexes over the pairs left
RECURSIVE LoadAll(_, _)
LoadAll(st, pairs) ==
    IF pairs = <<>> THEN st ELSE LoadAll(LoadCachedIndex(st, Head(pairs)), Tail(pairs))

\* CondaIndex::update_indexes
UpdateIndexesOf(st, chans, fault) ==
    LET written == UpdateCachedIndexes(st, Pairs(chans), fault)
    IN  IF written.ok THEN LoadAll(written, Pairs(chans)) ELSE written

\* the cache directories an index is constructed over: each repodata file
\* absent, or left by an earlier run
RepoDisks == UNION {[S -> {"stale"}] : S \in SUBSET (RepoChannels \X {Subdirs[i] : i \in 1..Len(Subdirs)})}

InitRepo ==
    /\ InstallIdle
    /\ LinkIdle
    /\ PlanIdle
    /\ EnvIdle
    /\ old_text = <<>>
    /\ new_text = <<>>
    /\ diff = Unset
    /\ diff_info = Unset
    /\ text = <<>>
    /\ recipe = Unset
    /\ conda_recipe = Unset
    /\ conda_adds = <<>>
    /\ pypi_adds = <<>>
    /\ spec_arg = Unset
    /\ index_channels = {}
    /\ indexes = EmptyMap
    /\ remote = EmptyMap
    /\ files = {}
    /\ resolved = Unset
    /\ got = NoCall
    /\ refetches = 0
    /\ downloads = 0
    /\ unpacks = 0
    /\ env_linked = FALSE
    /\ main_result = Unset
    /\ main_pc = "idle"
    /\ TreeIdle
    /\ cwd = StartDir
    /\ ChildIdle
    /\ repo_pc = "none"
    /\ repo_disk \in RepoDisks
    /\ repo_mem = EmptyMap
    /\ repo_log = <<>>
    /\ repo_updates = 0

\* what the calls on the index leave alone
RepoFrame == UNCHANGED <<parseVars, diffVars, installVars, main_pc, conda_adds, pypi_adds,
                         fetchVars, linkVars, planVars, envVars, treeVars, cwd, childVars>>

\* the requests of the call that is made now
NewRequests == SubSeq(repo_log', Len(repo_log) + 1, Len(repo_log'))

\* CondaIndex::try_new(&conda_info, &conda_cache, &channels): the channels
\* in the order of the vector, any one request of the call failing or none
CallTryNew ==
    /\ repo_pc = "none"
    /\ \E S \in (SUBSET RepoChannels) \ {{}} : \E chans \in Perms(S) :
       \E fault \in 0..(Len(Pairs(chans)) * Len(Subdirs)) :
       \E st \in {TryNewLoop(RepoState(repo_disk, EmptyMap, <<>>, TRUE), Pairs(chans),
                             fault)} :
          /\ repo_disk' = st.disk
          /\ repo_log' = st.log
          /\ IF st.ok
             THEN repo_pc' = "built" /\ repo_mem' = st.mem
             ELSE repo_pc' = "failed" /\ repo_mem' = EmptyMap
    /\ UNCHANGED repo_updates
    /\ RepoFrame

\* conda_index.update_indexes(channels): any one request of the call
\* failing or none
CallUpdateIndexes ==
    /\ repo_pc = "built"
    /\ repo_updates < MaxUpdates
    /\ repo_updates' = repo_updates + 1
    /\ \E S \in (SUBSET RepoChannels) \ {{}} : \E chans \in Perms(S) :
       \E fault \in 0..Len(Pairs(chans)) :
       \E st \in {UpdateIndexesOf(RepoState(repo_disk, repo_mem, <<>>, TRUE), chans, fault)} :
          /\ repo_disk' = st.disk
          /\ repo_mem' = st.mem
          /\ repo_log' = repo_log \o st.log
    /\ UNCHANGED repo_pc
    /\ RepoFrame

NextRepo ==
    \/ CallTryNew
    \/ CallUpdateIndexes

SpecRepo == InitRepo /\ [][NextRepo]_vars

\* C31: constructing the index requests only the repodata files that are
\* missing from the cache directory, and leaves every file that is cached
\* as it is.
C31_Original ==
    [][repo_pc = "none" =>
          \A pair \in DOMAIN repo_disk :
              /\ repo_disk'[pair] = repo_disk[pair]
              /\ pair \notin Range(repo_log')]_vars

\* C32: whenever an index exists, after its construction and after every
\* update_indexes call, failed ones included, the bucket loaded for a
\* (channel, subdir) pair equals the repodata of its cache file.
C32_Original ==
    repo_pc = "built" => \A pair \in DOMAIN repo_mem : repo_mem[pair] = repo_disk[pair]

(***************************************************************************)
(* conda/cache.rs and CondaIndex::download on the cache files of one       *)
(* package: the bytes of its tarball, the entries of its extracted tree    *)
(* and info/repodata_record.json.                                          *)
(***************************************************************************)
\* the entries a well-formed tarball of the package unpacks to
TarEntries == {"info/paths.json", "lib/a"}

\* pkg.data.md5 and pkg.data.timestamp as the repodata lists them
Md5Of(p) == IF p.data.version = "1" THEN Some("m5") ELSE None
TimestampOf(p) == IF p.data.version = "1" THEN None ELSE Some("1600")

\* the url of download: format!("{}/{}/{}/{}", alias, channel, subdir, tarball_name)
DownloadUrl(p) == <<"{channel_alias}", "/", p.channel, "/", "{subdir}", "/">> \o p.tarball_name

\* rsp.status().is_success() taken to hold of every response
AnyStatusSucceeds(status) == TRUE

\* rsp.status().is_success(): the 2xx codes
IsSuccess(status) == status \in {"200", "204"}

\* the statuses a response can carry; none when the request got no response
Statuses == {"none", "200", "204", "404", "500"}

\* the error of index.rs lines 133-137
FailToFetch(url, status) == Err(<<"fail to fetch">> \o url \o <<", code: ", status>>)

\* the PackageRecord try_get_prefix_record builds when the tree has no
\* info/repodata_record.json (cache.rs lines 121-148)
SynthesizedRecord(p, tarball) ==
    [name |-> p.data.name, version |-> p.data.version, fn |-> FileName(tarball),
     build |-> p.data.build, channel |-> <<"{channel_alias}", "/", p.channel>>,
     md5 |-> Md5Of(p), depends |-> <<>>, track_features |-> "", noarch |-> None,
     timestamp |-> TimestampOf(p)]

\* the fields of PackageRecord that are left out of the JSON when None
SkippedWhenNone == {"md5", "noarch"}

\* the Option fields of PackageRecord
OptionFields == {"md5", "noarch", "timestamp"}

\* the fields of PackageRecord with #[serde(default)]
DefaultFields == {"depends"}

\* serde_json::to_string with r#fn written under the key r#fn
SerializeRawKeys(r) ==
    [k \in {IF f = "fn" THEN "r#fn" ELSE f :
               f \in {g \in DOMAIN r : ~(g \in SkippedWhenNone /\ r[g] = None)}} |->
        IF k = "r#fn" THEN r.fn
        ELSE IF k \in OptionFields THEN (IF r[k] = None THEN "null" ELSE r[k][1])
        ELSE r[k]]

\* serde_json::to_string(&repodata_record): the JSON object, an Option
\* written as its value or as null, or left out by skip_serializing_if
Serialize(r) ==
    [k \in {f \in DOMAIN r : ~(f \in SkippedWhenNone /\ r[f] = None)} |->
        IF k \in OptionFields THEN (IF r[k] = None THEN "null" ELSE r[k][1]) ELSE r[k]]

\* the keys of PackageRecord
RecordFields == {"name", "version", "fn", "build", "channel", "md5", "depends",
                 "track_features", "noarch", "timestamp"}

\* serde_json::from_slice::<PackageRecord>: a missing Option is None, a
\* missing #[serde(default)] field is empty, build may come as build_string,
\* any other missing field is an error
Deserialize(json) ==
    LET Key(f) == IF f = "build" /\ "build" \notin DOMAIN json THEN "build_string" ELSE f
        Required == RecordFields \ (OptionFields \cup DefaultFields)
    IN  IF \E f \in Required : Key(f) \notin DOMAIN json
        THEN Err(<<"missing field">>)
        ELSE Ok([f \in RecordFields |->
                    IF f \in OptionFields
                    THEN (IF f \notin DOMAIN json \/ json[f] = "null" THEN None ELSE Some(json[f]))
                    ELSE IF f \in DefaultFields /\ f \notin DOMAIN json THEN <<>>
                    ELSE json[Key(f)]])

\* the records an extraction by the native tools leaves in the tree: a full
\* one, and one without track_features
ForeignRecords(p) ==
    {[name |-> p.data.name, version |-> p.data.version, fn |-> p.tarball_name,
      build_string |-> p.data.build, channel |-> <<"https://conda.anaconda.org/main">>,
      md5 |-> "ff", track_features |-> "", timestamp |-> "1500"],
     [name |-> p.data.name, version |-> p.data.version, fn |-> p.tarball_name,
      build |-> p.data.build, channel |-> <<"https://conda.anaconda.org/main">>,
      depends |-> <<"python">>]}

\* the cache files of the package at the time of a call
CacheFilesNow == [tar_file |-> tar_file, tree |-> tree, record_json |-> record_json]

\* a call on the cache: the method, the package, what it returned and the
\* cache files it found
TreeCall(method, p, value) ==
    [method |-> method, pkg |-> p, value |-> value, before |-> CacheFilesNow]

\* one way a call can end: its result and the cache files it leaves
TreeOutcome(res, tar, tr, rec) == [result |-> res, tar_file |-> tar, tree |-> tr, record_json |-> rec]

\* unpack_tarball unpacking over the directory it finds
UnpackOverOldTree(tar, tr, rec) ==
    IF tar = None THEN {TreeOutcome(Err(<<"NotFound">>), tar, tr, rec)}
    ELSE {TreeOutcome(Ok(<<>>), tar, Some((IF tr = None THEN {} ELSE tr[1]) \cup TarEntries), rec)}

\* CondaCache::unpack_tarball: NotFound without a tarball; else the
\* directory is removed and made anew, the tarball opened and decoded, and
\* its entries unpacked; each step may fail
UnpackOutcomes(tar, tr, rec) ==
    IF tar = None THEN {TreeOutcome(Err(<<"NotFound">>), tar, tr, rec)}
    ELSE (IF tr # None THEN {TreeOutcome(Err(<<"remove_dir_all">>), tar, tr, rec)} ELSE {})
         \cup {TreeOutcome(Err(<<"decode">>), tar, Some({}), None)}
         \cup (IF tar[1] = "good"
               THEN {TreeOutcome(Err(<<"unpack">>), tar, Some(part), None) :
                        part \in (SUBSET TarEntries) \ {TarEntries}}
                    \cup {TreeOutcome(Ok(<<>>), tar, Some(TarEntries), None)}
               ELSE {})

\* the PrefixRecord of cache.rs lines 159-176
PrefixRecordOf(r, tar, p) ==
    [repodata_record |-> r,
     package_tarball_full_path |-> IF tar = None THEN None ELSE Some(TarballPathOf(p)),
     extracted_package_dir |-> Some(ExtractedPathOf(p))]

\* CondaCache::try_get_prefix_record after the directory is there: paths.json
\* read, the record read back or built and written
RecordOutcomes(tar, tr, rec, p) ==
    IF "info/paths.json" \notin tr[1]
    THEN {TreeOutcome(Err(<<"path: info/paths.json">>), tar, tr, rec)}
    ELSE IF rec # None
    THEN {TreeOutcome(IF Deserialize(rec[1]).tag = "Ok"
                      THEN Ok(PrefixRecordOf(Deserialize(rec[1]).value, tar, p))
                      ELSE Deserialize(rec[1]),
                      tar, tr, rec)}
    ELSE IF tar = None
    THEN {TreeOutcome([tag |-> "Panic", message |-> <<"unwrap on None">>], tar, tr, rec)}
    ELSE {TreeOutcome(Ok(PrefixRecordOf(SynthesizedRecord(p, TarballPathOf(p)), tar, p)), tar, tr,
                      Some(Serialize(SynthesizedRecord(p, TarballPathOf(p))))),
          TreeOutcome(Err(<<"write">>), tar, tr, rec)}

\* CondaCache::try_get_prefix_record
PrefixRecordOutcomes(tar, tr, rec, p) ==
    IF tr # None THEN RecordOutcomes(tar, tr, rec, p)
    ELSE UNION {IF u.result.tag = "Ok"
                THEN RecordOutcomes(u.tar_file, u.tree, u.record_json, p)
                ELSE {u} : u \in UnpackOutcomes(tar, tr, rec)}

\* CondaIndex::download: no response, a response outside 2xx, or the body
\* written as the tarball and unpacked
DownloadOutcomes(tar, tr, rec, p, status) ==
    IF status = "none" THEN {TreeOutcome(Err(<<"http error">> \o DownloadUrl(p)), tar, tr, rec)}
    ELSE IF ~IsSuccess(status) THEN {TreeOutcome(FailToFetch(DownloadUrl(p), status), tar, tr, rec)}
    ELSE {TreeOutcome(Err(<<"body">>), tar, tr, rec),
          TreeOutcome(Err(<<"write">>), tar, tr, rec)}
         \cup UNION {UnpackOutcomes(Some(body), tr, rec) : body \in {"good", "corrupt"}}

\* the states of the cache files of a package left by earlier runs: tarball
\* absent or whole; the tree absent, or whole with or without files that
\* are not of the tarball, with or without a record
InitTree ==
    /\ InstallIdle
    /\ LinkIdle
    /\ PlanIdle
    /\ EnvIdle
    /\ RepoIdle
    /\ cwd = StartDir
    /\ ChildIdle
    /\ old_text = <<>>
    /\ new_text = <<>>
    /\ diff = Unset
    /\ diff_info = Unset
    /\ text = <<>>
    /\ recipe = Unset
    /\ conda_recipe = Unset
    /\ conda_adds = <<>>
    /\ pypi_adds = <<>>
    /\ spec_arg = Unset
    /\ index_channels = {}
    /\ indexes = EmptyMap
    /\ remote = EmptyMap
    /\ files = {}
    /\ resolved \in CachePackages
    /\ got = NoCall
    /\ refetches = 0
    /\ downloads = 0
    /\ unpacks = 0
    /\ env_linked = FALSE
    /\ main_result = Unset
    /\ main_pc = "tree"
    /\ tar_file \in {None, Some("good")}
    /\ tree \in {None, Some(TarEntries), Some(TarEntries \cup {"lib/stale"})}
    /\ record_json \in IF tree = None THEN {None}
                      ELSE {None, Some(Serialize(SynthesizedRecord(resolved, TarballPathOf(resolved))))}
                           \cup {Some(j) : j \in ForeignRecords(resolved)}
    /\ rsp_status = "none"

\* what a call on the cache files leaves alone
TreeFrame ==
    UNCHANGED <<main_pc, spec_arg, index_channels, indexes, remote, files, resolved, refetches,
                downloads, unpacks, env_linked, main_result, conda_adds, pypi_adds, linkVars,
                planVars, envVars, repoVars, cwd, childVars, parseVars, diffVars, installVars>>

\* the call returns with the outcome
TreeReturns(method, out) ==
    /\ got' = TreeCall(method, resolved, out.result)
    /\ tar_file' = out.tar_file
    /\ tree' = out.tree
    /\ record_json' = out.record_json

\* cache.rs 21-33: get_extracted_dir(pkg)
ExtractedDirCall ==
    /\ main_pc = "tree"
    /\ TreeReturns("get_extracted_dir",
                   TreeOutcome(IF tree = None THEN None ELSE Some(ExtractedPathOf(resolved)),
                               tar_file, tree, record_json))
    /\ UNCHANGED rsp_status
    /\ TreeFrame

\* cache.rs 62-94: unpack_tarball(pkg)
UnpackCall ==
    /\ main_pc = "tree"
    /\ \E out \in UnpackOutcomes(tar_file, tree, record_json) : TreeReturns("unpack_tarball", out)
    /\ UNCHANGED rsp_status
    /\ TreeFrame

\* cache.rs 96-177: try_get_prefix_record(pkg)
PrefixRecordCall ==
    /\ main_pc = "tree"
    /\ \E out \in PrefixRecordOutcomes(tar_file, tree, record_json, resolved) :
          TreeReturns("try_get_prefix_record", out)
    /\ UNCHANGED rsp_status
    /\ TreeFrame

\* index.rs 121-144: download(pkg)
DownloadCall ==
    /\ main_pc = "tree"
    /\ \E status \in Statuses :
          /\ rsp_status' = status
          /\ \E out \in DownloadOutcomes(tar_file, tree, record_json, resolved, status) :
                TreeReturns("download", out)
    /\ TreeFrame

NextTree ==
    \/ ExtractedDirCall
    \/ UnpackCall
    \/ PrefixRecordCall
    \/ DownloadCall

SpecTree == InitTree /\ [][NextTree]_vars

\* C33: a download(pkg) answered with a status outside 2xx returns the error
\* "fail to fetch <url>, code: <status>" with the url of the package and
\* the status of the response, and the tarball, the extracted tree and the
\* record of the package are as the call found them
C33_NonSuccessLeavesCache ==
    (got.method = "download" /\ rsp_status \in {"404", "500"}) =>
        /\ got.value.tag = "Err"
        /\ got.value.error = <<"fail to fetch", "{channel_alias}", "/", got.pkg.channel, "/",
                               "{subdir}", "/">> \o got.pkg.tarball_name
                             \o <<", code: ", rsp_status>>
        /\ CacheFilesNow = got.before

\* a download answered 404 while the cache held the tarball and the tree
C33_Witness ==
    /\ got.method = "download"
    /\ rsp_status = "404"
    /\ got.value.tag = "Err"
    /\ tar_file # None
    /\ tree # None

\* C34: after unpack_tarball returned Ok the extracted directory holds
\* exactly the entries of the tarball, whatever it held before, so a second
\* unpack leaves what the first left
C34_UnpackExact ==
    (got.method = "unpack_tarball" /\ got.value.tag = "Ok") =>
        /\ tree = Some(TarEntries)
        /\ record_json = None

\* an unpack that succeeded over a tree with a file not of the tarball
C34_Witness ==
    /\ got.method = "unpack_tarball"
    /\ got.value.tag = "Ok"
    /\ got.before.tree = Some(TarEntries \cup {"lib/stale"})
    /\ got.before.record_json # None
    /\ tree = Some(TarEntries)

\* C35: get_extracted_dir returns a directory only when the directory holds
\* every entry of the tarball of the package
C35_Original ==
    (got.method = "get_extracted_dir" /\ got.value # None) =>
        (tree # None /\ TarEntries \subseteq tree[1])

\* C36: a try_get_prefix_record that follows one that returned Ok returns
\* the same PrefixRecord and leaves every cache file as it was; the first
\* wrote a record that reads back as the record it returned
C36_Idempotent ==
    [][(/\ got.method = "try_get_prefix_record"
        /\ got.value.tag = "Ok"
        /\ got'.method = "try_get_prefix_record")
       => /\ got'.value = got.value
          /\ <<tar_file', tree', record_json'>> = <<tar_file, tree, record_json>>
          /\ record_json # None
          /\ Deserialize(record_json[1]) = Ok(got.value.value.repodata_record)]_vars

\* a second call read back the record the first call built for a package
\* without md5
C36_Witness ==
    /\ got.method = "try_get_prefix_record"
    /\ got.value.tag = "Ok"
    /\ got.before.record_json # None
    /\ got.value.value.repodata_record = SynthesizedRecord(resolved, TarballPathOf(resolved))
    /\ got.value.value.repodata_record.md5 = None
    /\ "md5" \notin DOMAIN record_json[1]

\* C37: when install_conda_pkg has returned, with Ok or with an error, the
\* working directory of the process is the one it was entered with
C37_Original == main_pc \in {"installed", "failed", "panicked"} => cwd = StartDir

(***************************************************************************)
(* action/install.rs lines 95-276: the printer task, the select loop over  *)
(* the conda child of the native packages, and run_conda (action/mod.rs)   *)
(* of the pip install of one pypi package.  The steps are the points where *)
(* install(), the child and the printer can be scheduled one after the     *)
(* other.                                                                  *)
(***************************************************************************)
MaxOutput == 3      \* lines a child writes
PipeCapacity == 2   \* lines a pipe holds before a write to it blocks
EventCapacity == 2  \* the capacity of the event channel, scaled to MaxOutput

\* the ids of indexes (lines 161-173): {name}-{version}-{build} of the
\* packages to install
RegisteredIds == {"numpy-1-b0"}

\* a line of a stream of the child
ChildLine(stream, line) == [stream |-> stream, text |-> line]

\* the line conda -vv writes to stderr when it links the package
LinkingLine(id) == <<"==> LINKING PACKAGE: ", "defaults", "::", id, " <==">>

\* line 174, pattern.captures(&line): the id between :: and <==
Captures(line) ==
    IF Len(line) = 5 /\ line[1] = "==> LINKING PACKAGE: " /\ line[3] = "::" /\ line[5] = " <=="
    THEN Some(line[4]) ELSE None

\* the lines the child of conda install can write
NativeLines ==
    {ChildLine("out", <<"Verifying transaction: done">>),
     ChildLine("err", LinkingLine("numpy-1-b0")),
     ChildLine("err", LinkingLine("zlib-1-h0")),
     ChildLine("err", <<"DEBUG">>)}

\* the lines the child of pip install can write
PipLines == {ChildLine("out", <<"Requirement">>), ChildLine("err", <<"WARNING">>)}

\* install() has returned or panicked: event_tx is dropped
SenderDropped == inst_pc \in {"returned_ok", "returned_err", "panicked"}

InitChild ==
    /\ InstallIdle
    /\ LinkIdle
    /\ PlanIdle
    /\ EnvIdle
    /\ RepoIdle
    /\ TreeIdle
    /\ cwd = StartDir
    /\ old_text = <<>>
    /\ new_text = <<>>
    /\ diff = Unset
    /\ diff_info = Unset
    /\ text = <<>>
    /\ recipe = Unset
    /\ conda_recipe = Unset
    /\ conda_adds = <<>>
    /\ pypi_adds = <<>>
    /\ spec_arg = Unset
    /\ index_channels = {}
    /\ indexes = EmptyMap
    /\ remote = EmptyMap
    /\ files = {}
    /\ resolved = Unset
    /\ got = NoCall
    /\ refetches = 0
    /\ downloads = 0
    /\ unpacks = 0
    /\ env_linked = FALSE
    /\ main_result = Unset
    /\ main_pc = "idle"
    /\ inst_pc = "select"
    /\ handler = <<"Message">>
    /\ child_state = "running"
    /\ child_todo \in SeqsUpTo(NativeLines, MaxOutput)
    /\ pipe_out = <<>>
    /\ pipe_err = <<>>
    /\ events = <<>>
    /\ printer_pc = "running"
    /\ printer_saw_none = FALSE
    /\ pb_pos = 0
    /\ increase_sent = 0
    /\ matched_written = 0
    /\ pip_failed = 0

\* what the steps of install(), of the child and of the printer leave alone
ChildFrame ==
    UNCHANGED <<parseVars, diffVars, installVars, main_pc, conda_adds, pypi_adds, fetchVars,
                linkVars, planVars, envVars, repoVars, treeVars, cwd>>

\* the child writes its next line; the write blocks while the pipe is full
ChildWrite ==
    /\ child_state = "running"
    /\ child_todo # <<>>
    /\ \E line \in {Head(child_todo)} :
          /\ IF line.stream = "out"
             THEN /\ Len(pipe_out) < PipeCapacity
                  /\ pipe_out' = Append(pipe_out, line.text)
                  /\ UNCHANGED pipe_err
             ELSE /\ Len(pipe_err) < PipeCapacity
                  /\ pipe_err' = Append(pipe_err, line.text)
                  /\ UNCHANGED pipe_out
          /\ matched_written' =
                IF /\ inst_pc = "select"
                   /\ line.stream = "err"
                   /\ Captures(line.text) # None
                   /\ Captures(line.text)[1] \in RegisteredIds
                THEN matched_written + 1 ELSE matched_written
    /\ child_todo' = Tail(child_todo)
    /\ UNCHANGED <<inst_pc, handler, child_state, events, printer_pc, printer_saw_none, pb_pos,
                   increase_sent, pip_failed>>
    /\ ChildFrame

\* the child exits after its last line
ChildExit ==
    /\ child_state = "running"
    /\ child_todo = <<>>
    /\ child_state' = "exited"
    /\ UNCHANGED <<inst_pc, handler, child_todo, pipe_out, pipe_err, events, printer_pc,
                   printer_saw_none, pb_pos, increase_sent, matched_written, pip_failed>>
    /\ ChildFrame

\* event_tx.send(event).await: waits while the channel is full; an error
\* when the receiver is gone, which let _ drops
SendEvent ==
    /\ handler # <<>>
    /\ Head(handler) # "indexes[&pkg]"
    /\ IF printer_pc = "done"
       THEN UNCHANGED events
       ELSE /\ Len(events) < EventCapacity
            /\ events' = Append(events, Head(handler))
    /\ increase_sent' = IF Head(handler) = "Increase" THEN increase_sent + 1 ELSE increase_sent
    /\ handler' = Tail(handler)
    /\ UNCHANGED <<inst_pc, child_state, child_todo, pipe_out, pipe_err, printer_pc,
                   printer_saw_none, pb_pos, matched_written, pip_failed>>
    /\ ChildFrame

\* line 200, indexes[&pkg] of an id that is not a key: a panic
IndexPanics ==
    /\ handler # <<>>
    /\ Head(handler) = "indexes[&pkg]"
    /\ handler' = <<>>
    /\ inst_pc' = "panicked"
    /\ UNCHANGED <<child_state, child_todo, pipe_out, pipe_err, events, printer_pc,
                   printer_saw_none, pb_pos, increase_sent, matched_written, pip_failed>>
    /\ ChildFrame

\* lines 185-191: the branch of a line of stdout
SelectStdout ==
    /\ inst_pc = "select"
    /\ handler = <<>>
    /\ pipe_out # <<>>
    /\ pipe_out' = Tail(pipe_out)
    /\ handler' = IF Head(pipe_out)[1] = "Verifying transaction: done"
                  THEN <<"Message">> ELSE <<>>
    /\ UNCHANGED <<inst_pc, child_state, child_todo, pipe_err, events, printer_pc,
                   printer_saw_none, pb_pos, increase_sent, matched_written, pip_failed>>
    /\ ChildFrame

\* lines 192-204: the branch of a line of stderr; first_pkg stays false, so
\* every line the pattern matches sends Increase, then the package of the id
SelectStderr ==
    /\ inst_pc = "select"
    /\ handler = <<>>
    /\ pipe_err # <<>>
    /\ pipe_err' = Tail(pipe_err)
    /\ \E cap \in {Captures(Head(pipe_err))} :
          handler' = IF cap = None THEN <<>>
                     ELSE IF cap[1] \in RegisteredIds THEN <<"Increase", "Package">>
                     ELSE <<"Increase", "indexes[&pkg]">>
    /\ UNCHANGED <<inst_pc, child_state, child_todo, pipe_out, events, printer_pc,
                   printer_saw_none, pb_pos, increase_sent, matched_written, pip_failed>>
    /\ ChildFrame

\* lines 205-212: SIGTERM or ctrl-c: the child killed, the error returned
SelectSignal ==
    /\ inst_pc = "select"
    /\ handler = <<>>
    /\ child_state' = "killed"
    /\ inst_pc' = "returned_err"
    /\ UNCHANGED <<handler, child_todo, pipe_out, pipe_err, events, printer_pc, printer_saw_none,
                   pb_pos, increase_sent, matched_written, pip_failed>>
    /\ ChildFrame

\* lines 213-215 and 238: the child has exited, break; then the pypi loop
\* sends the package it is about to install
SelectExit ==
    /\ inst_pc = "select"
    /\ handler = <<>>
    /\ child_state = "exited"
    /\ inst_pc' = "pip_start"
    /\ handler' = <<"Package">>
    /\ UNCHANGED <<child_state, child_todo, pipe_out, pipe_err, events, printer_pc,
                   printer_saw_none, pb_pos, increase_sent, matched_written, pip_failed>>
    /\ ChildFrame

\* mod.rs line 33: run_conda spawns the child of pip install with new pipes
PipSpawn ==
    /\ inst_pc = "pip_start"
    /\ handler = <<>>
    /\ inst_pc' = "run_conda_wait"
    /\ child_state' = "running"
    /\ child_todo' \in SeqsUpTo(PipLines, MaxOutput)
    /\ pipe_out' = <<>>
    /\ pipe_err' = <<>>
    /\ UNCHANGED <<handler, events, printer_pc, printer_saw_none, pb_pos, increase_sent,
                   matched_written, pip_failed>>
    /\ ChildFrame

\* mod.rs lines 35-43 and install.rs 250-273: process.wait().await returns
\* when the child has exited, only then a pipe is read to its end; Ok sends
\* Increase and, the loop being over, Done; an error returns or queues the
\* package again
RunCondaWait ==
    /\ inst_pc = "run_conda_wait"
    /\ child_state = "exited"
    /\ pipe_out' = <<>>
    /\ pipe_err' = <<>>
    /\ \E status \in {"ok", "not find a version", "other"} :
          IF status = "ok"
          THEN /\ handler' = <<"Increase", "Done">>
               /\ inst_pc' = "await_printer"
               /\ UNCHANGED pip_failed
          ELSE IF status = "not find a version"
          THEN /\ inst_pc' = "returned_err"
               /\ UNCHANGED <<handler, pip_failed>>
          ELSE /\ pip_failed < MaxFaults
               /\ pip_failed' = pip_failed + 1
               /\ IF pip_failed + 1 = max_failed
                  THEN inst_pc' = "returned_err" /\ UNCHANGED handler
                  ELSE inst_pc' = "pip_start" /\ handler' = <<"Package">>
    /\ UNCHANGED <<child_state, child_todo, events, printer_pc, printer_saw_none, pb_pos,
                   increase_sent, matched_written>>
    /\ ChildFrame

\* lines 274-276: printer.await, then Ok(())
AwaitPrinter ==
    /\ inst_pc = "await_printer"
    /\ handler = <<>>
    /\ printer_pc = "done"
    /\ inst_pc' = "returned_ok"
    /\ UNCHANGED <<handler, child_state, child_todo, pipe_out, pipe_err, events, printer_pc,
                   printer_saw_none, pb_pos, increase_sent, matched_written, pip_failed>>
    /\ ChildFrame

\* lines 117-126: the printer receives an event
PrinterRecv ==
    /\ printer_pc = "running"
    /\ events # <<>>
    /\ events' = Tail(events)
    /\ pb_pos' = IF Head(events) = "Increase" THEN pb_pos + 1 ELSE pb_pos
    /\ printer_pc' = IF Head(events) = "Done" THEN "done" ELSE "running"
    /\ UNCHANGED <<inst_pc, handler, child_state, child_todo, pipe_out, pipe_err,
                   printer_saw_none, increase_sent, matched_written, pip_failed>>
    /\ ChildFrame

\* lines 116-128: recv() returns None once the channel is empty and its
\* sender dropped; the if let does not match and the loop goes on
PrinterRecvNone ==
    /\ printer_pc = "running"
    /\ events = <<>>
    /\ SenderDropped
    /\ printer_saw_none' = TRUE
    /\ UNCHANGED <<inst_pc, handler, child_state, child_todo, pipe_out, pipe_err, events,
                   printer_pc, pb_pos, increase_sent, matched_written, pip_failed>>
    /\ ChildFrame

NextChild ==
    \/ ChildWrite
    \/ ChildExit
    \/ SendEvent
    \/ IndexPanics
    \/ SelectStdout
    \/ SelectStderr
    \/ SelectSignal
    \/ SelectExit
    \/ PipSpawn
    \/ RunCondaWait
    \/ AwaitPrinter
    \/ PrinterRecv
    \/ PrinterRecvNone

SpecChild == InitChild /\ [][NextChild]_vars

\* the operating system runs a child that can write or exit, tokio polls a
\* task that can go on; the signals are not owed
SpecChildFair ==
    /\ SpecChild
    /\ WF_vars(ChildWrite)
    /\ WF_vars(ChildExit)
    /\ WF_vars(SendEvent)
    /\ WF_vars(IndexPanics)
    /\ WF_vars(SelectStdout)
    /\ WF_vars(SelectStderr)
    /\ WF_vars(SelectExit)
    /\ WF_vars(PipSpawn)
    /\ WF_vars(RunCondaWait)
    /\ WF_vars(AwaitPrinter)
    /\ WF_vars(PrinterRecv)
    /\ WF_vars(PrinterRecvNone)

\* C38: when the select loop over the child of conda install has ended, an
\* Increase was sent for every LINKING PACKAGE line of a registered id the
\* child wrote to its stderr
C38_Original == (inst_pc = "pip_start") => (increase_sent = matched_written)

\* C39: a child that runs comes to exit, however much it writes
C39_Original == [](child_state = "running" => <>(child_state # "running"))

\* C40: once install() has returned, the printer task comes to its end
C40_Original == [](SenderDropped => <>(printer_pc = "done"))

====
